---- MODULE Spec2Model ----
(***************************************************************************)
(* Model of mani-diffy: the concurrent walker (main.go), the renderer      *)
(* dispatch, the two hash stores (JSONHashStore, SumFileStore) and the     *)
(* parts of pkg/helm the walker calls.                                     *)
(*                                                                         *)
(* Paths: every node renders to outputPath/<name>, so an output path is    *)
(* represented by the node name.  A walk invocation (frame) is identified  *)
(* by its call path: <<>> is the root walk, f \o <<k>> is the goroutine    *)
(* started for the k-th directory entry of frame f, and u \o <<i>> is the  *)
(* recursive walk that goroutine u makes for its i-th document.            *)
(*                                                                         *)
(* Specifications: Spec runs the program over the root directory under     *)
(* every flag setting and fault; SpecEnv adds a change made by hand        *)
(* between two runs; SpecGate runs it over a deep and a wide directory;    *)
(* SpecStore calls the hash stores directly.                               *)
(***************************************************************************)
EXTENDS Integers, Sequences, FiniteSets, TLC

InfiniteDepth == -1

SemaphoreSize == 10

\* Number of times the program is run over the same directories.
MaxRuns == 2

\* The deepest invocation of walk that the model lets recurse; the chain of
\* "deep" needs ten levels.
MaxWalkDepth == 10

Nil == "nil"
ErrNotSupported == "kustomize not supported"

EmptyDigest == <<>>

\* The entry NewJSONHashStore always sets under the key "//".
SentinelKey == "//"
SentinelValue == <<"AUTO GENERATED. DO NOT EDIT.">>

-----------------------------------------------------------------------------
(* The input tree.  A document is a record; a file content is a string     *)
(* that YamlDocs parses.                                                   *)

\* Spec.Source.Helm.ValueFiles of the helm nodes, as path segments.
ValueFiles(n) ==
  CASE n = "a" -> << <<"..", "..", "overrides", "a.yaml">> >>
    [] n = "b" -> << <<"..", "..", "overrides", "b.yaml">>,
                     <<"..", "..", "overrides-to-ignore", "b.yaml">> >>
    [] n = "d" -> << <<"..", "..", "overrides", "d.yaml">> >>
    [] OTHER -> <<>>

App(n, s) ==
  [name |-> n, kind |-> "Application", src |-> s,
   valueFiles |-> IF s = "helm" THEN ValueFiles(n) ELSE <<>>]
Other(n) == [name |-> n, kind |-> "ConfigMap", src |-> "raw", valueFiles |-> <<>>]

\* Spec.Source.Helm != nil and Spec.Source.Kustomize != nil; a source may carry
\* both blocks.
HasHelm(crd) == crd.src \in {"helm", "helm+kustomize"}
HasKustomize(crd) == crd.src \in {"kustomize", "helm+kustomize"}

\* Names split into the pieces strings.HasSuffix can tell apart.
NameTokens(n) ==
  CASE n = "c-ignore" -> <<"c", "-ignore">>
    [] OTHER -> <<n>>

SuffixTokens(s) == IF s = "" THEN <<>> ELSE <<s>>

\* A suffix test that no name passes.
HasSuffixNever(n, s) == FALSE

\* strings.HasSuffix(name, suffix)
HasSuffix(n, s) ==
  LET t == NameTokens(n)
      x == SuffixTokens(s)
  IN /\ Len(x) <= Len(t)
     /\ SubSeq(t, Len(t) - Len(x) + 1, Len(t)) = x

\* The directories the -root flag can name: "root" holds f1.yaml and f2.yaml;
\* "deep" holds one file whose node renders a manifest that declares the next
\* node of a chain, and so on; "wide" holds more files than the semaphore has
\* slots, none of which parses; "loop" holds one file whose node x renders a
\* manifest that declares x again.
InputDirs == {"root", "deep", "wide", "loop"}

ChainNames == <<"n01", "n02", "n03", "n04", "n05", "n06", "n07", "n08", "n09", "n10">>
ChainManifests ==
  <<"m:n01", "m:n02", "m:n03", "m:n04", "m:n05", "m:n06", "m:n07", "m:n08", "m:n09",
    "m:leaf">>
WideEntries ==
  <<"w01.yaml", "w02.yaml", "w03.yaml", "w04.yaml", "w05.yaml", "w06.yaml",
    "w07.yaml", "w08.yaml", "w09.yaml", "w10.yaml", "w11.yaml">>

InChain(n) == \E i \in 1..Len(ChainNames) : ChainNames[i] = n
IsWide(f) == \E i \in 1..Len(WideEntries) : WideEntries[i] = f

\* os.ReadDir returns the entries sorted by file name.
RootEntries == <<"f1.yaml", "f2.yaml", "readme.md">>
InputEntries(input) ==
  CASE input = "root" -> RootEntries
    [] input = "deep" -> <<"chain.yaml">>
    [] input = "loop" -> <<"self.yaml">>
    [] OTHER -> WideEntries
DirFileOrder == <<"NOTES.txt", "hash.sum", "manifest.yaml">>
TopOrder ==
  <<"a", "b", "c", "c-ignore", "d", "e", "hashes.json", "k">> \o ChainNames \o <<"s", "x">>
\* The keys of hashes.json in the order json.MarshalIndent writes them.
KeyOrder ==
  <<"//", "a", "b", "c", "c-ignore", "d", "e", "k">> \o ChainNames \o <<"s", "x">>
DirNames ==
  {"a", "b", "c", "c-ignore", "d", "e", "k", "s", "x"}
    \cup {ChainNames[i] : i \in 1..Len(ChainNames)}

\* strings.Contains(file.Name(), ".yaml")
IsYaml(f) == f \in {"f1.yaml", "f2.yaml", "manifest.yaml", "chain.yaml", "self.yaml"} \/ IsWide(f)

\* File contents.  "" is the empty byte string.
SizeOf(content) == IF content = "" THEN 0 ELSE 1

\* The documents helm.Read decodes from a content; ok = FALSE is a decode error.
YamlDocs(content) ==
  CASE content = "in:f1" ->
         [ok |-> TRUE, docs |-> <<App("a", "helm"), App("k", "kustomize"), App("b", "helm")>>]
    [] content = "in:f2" ->
         [ok |-> TRUE, docs |-> <<App("c", "raw"), Other("cfg"), App("c-ignore", "helm")>>]
    [] content = "in:bad" -> [ok |-> FALSE, docs |-> <<>>]
    [] content = "m:a" -> [ok |-> TRUE, docs |-> <<Other("svc"), App("d", "helm")>>]
    [] content = "m:k-old" -> [ok |-> TRUE, docs |-> <<App("e", "helm")>>]
    [] content \in {"in:loop", "m:x"} -> [ok |-> TRUE, docs |-> <<App("x", "helm")>>]
    [] content = "in:deep" -> [ok |-> TRUE, docs |-> <<App(ChainNames[1], "helm")>>]
    [] \E i \in 1..(Len(ChainNames) - 1) : content = ChainManifests[i] ->
         LET i == CHOOSE j \in 1..(Len(ChainNames) - 1) : content = ChainManifests[j]
         IN [ok |-> TRUE, docs |-> <<App(ChainNames[i + 1], "helm")>>]
    [] OTHER -> [ok |-> TRUE, docs |-> <<>>]

-----------------------------------------------------------------------------
VARIABLES
  cfg,        \* the flags of the run and the condition of the environment
  env,        \* the value files of the working directory, and what was
              \* changed by hand since the last run
  run,        \* how many times Walk has been started
  wpc,        \* position of Walker.Walk
  walkErr,    \* what the last Walk returned
  visited,    \* VisitedMap.visited (the paths set to true)
  mem,        \* JSONHashStore.hashes
  jsonFile,   \* outputPath/hashes.json
  out,        \* the directories of outputPath: name -> (file name -> content)
  frames,     \* the invocations of Walker.walk
  units,      \* the goroutines started by Walker.walk
  pruneList,  \* the entries pruneUnvisited still has to look at
  trace,      \* history: what happened to each processed document, in order
  hist        \* history: snapshots and flags of the current run

vars == <<cfg, env, run, wpc, walkErr, visited, mem, jsonFile, out, frames, units,
          pruneList, trace, hist>>

Backends == {"json", "sumfile"}
HashStrategyReadWrite == "readwrite"
HashStrategyRead == "read"
Strategies == {HashStrategyReadWrite, HashStrategyRead}
Depths == {InfiniteDepth, 0, 1}
Faults == {"none", "renderA", "renderC", "readF2", "hashB", "save", "prune",
           "emptyB", "hookFail", "getB"}

Front(s) == SubSeq(s, 1, Len(s) - 1)
Last(s) == s[Len(s)]

Without(f, k) == [x \in DOMAIN f \ {k} |-> f[x]]
With(f, k, v) == [x \in DOMAIN f \cup {k} |-> IF x = k THEN v ELSE f[x]]
EmptyMap == [x \in {} |-> 0]

-----------------------------------------------------------------------------
(* pkg/helm                                                                *)

\* strings.Contains(file, ignoreValueFile)
Contains(file, sub) == \E i \in 1..Len(file) : file[i] = sub

\* matchDots.ReplaceAllString(file, "")
TrimDots(file) == SelectSeq(file, LAMBDA x : x # "..")

\* A digest that takes no value file in.
HashedValueFilesNone(crd) == <<>>

\* The value files GenerateHash reads: the ones not matching --ignore-value-file.
HashedValueFiles(crd) ==
  SelectSeq(crd.valueFiles,
            LAMBDA f : cfg.ignoreValueFile = "" \/ ~Contains(f, cfg.ignoreValueFile))

\* The chain of hashes: the definition, then the value files in order.
\* sha256 is taken to be free of collisions.
Digest(crd) ==
  LET used == HashedValueFiles(crd)
      sums == [i \in 1..Len(used) |-> env.files[TrimDots(used[i])]]
  IN IF Len(crd.valueFiles) > 0
       THEN <<"sha256", crd.name, crd.src, sums>>
       ELSE <<"sha256", crd.name, crd.src>>

\* A GenerateHash whose kustomize error is not the sentinel.
GenerateHashPlainError(crd) ==
  IF crd.src = "kustomize"
    THEN [hash |-> EmptyDigest, err |-> "kustomize failed"]
    ELSE [hash |-> Digest(crd), err |-> Nil]

\* helm.GenerateHash: the kustomize check comes after the hash of the
\* definition and before the source directory is read.
GenerateHash(crd) ==
  IF HasKustomize(crd)
    THEN [hash |-> EmptyDigest, err |-> ErrNotSupported]
    ELSE IF cfg.fault = "hashB" /\ crd.name = "b"
      THEN [hash |-> EmptyDigest, err |-> "hash failed"]
      ELSE IF \E i \in 1..Len(HashedValueFiles(crd)) :
                TrimDots(HashedValueFiles(crd)[i]) \notin DOMAIN env.files
        THEN [hash |-> EmptyDigest, err |-> "no such file or directory"]
        ELSE [hash |-> Digest(crd), err |-> Nil]

\* An EmptyManifest for which a missing file is empty.
EmptyManifestOrMissing(o, n) ==
  IF n \in DOMAIN o /\ "manifest.yaml" \in DOMAIN o[n]
    THEN SizeOf(o[n]["manifest.yaml"]) = 0
    ELSE TRUE

\* helm.EmptyManifest(path/manifest.yaml): a missing file is not empty.
EmptyManifest(o, n) ==
  IF n \in DOMAIN o /\ "manifest.yaml" \in DOMAIN o[n]
    THEN SizeOf(o[n]["manifest.yaml"]) = 0
    ELSE FALSE

\* The stdout of "helm template" for a node and whether the command failed.
Manifest(crd) ==
  CASE crd.name = "a" -> "m:a"
    [] crd.name = "b" -> IF cfg.fault = "emptyB" THEN "" ELSE "m:b"
    [] crd.name = "x" -> "m:x"
    [] InChain(crd.name) ->
         ChainManifests[CHOOSE i \in 1..Len(ChainNames) : ChainNames[i] = crd.name]
    [] OTHER -> "m:leaf"

template(crd) ==
  IF cfg.fault = "renderA" /\ crd.name = "a"
    THEN [bytes |-> "", err |-> "error templating manifest"]
    ELSE [bytes |-> Manifest(crd), err |-> Nil]

\* helm.writeToFile: MkdirAll, then write manifest.yaml.
writeToFile(o, n, bytes) ==
  LET dir == IF n \in DOMAIN o THEN o[n] ELSE EmptyMap
  IN With(o, n, With(dir, "manifest.yaml", bytes))

\* helm.Run
Run(o, crd, n) ==
  LET t == template(crd)
  IN IF t.err # Nil
       THEN [out |-> o, err |-> t.err]
       ELSE [out |-> writeToFile(o, n, t.bytes), err |-> Nil]

\* main.CopySource: cp -r <source>/. <output>
SourceDir(crd) == [x \in {"NOTES.txt"} |-> "text"]

CopySource(o, crd, n) ==
  IF cfg.fault = "renderC" /\ crd.name = "c"
    THEN [out |-> o, err |-> "exit status 1"]
    ELSE LET dir == IF n \in DOMAIN o THEN o[n] ELSE EmptyMap
             src == SourceDir(crd)
         IN [out |-> With(o, n, [x \in DOMAIN dir \cup DOMAIN src |->
                                   IF x \in DOMAIN src THEN src[x] ELSE dir[x]]),
             err |-> Nil]

\* helm.Read of a file of a directory: the root input directory or an output
\* directory.
FileContent(o, input, file) ==
  IF input \in InputDirs
    THEN (CASE file = "f1.yaml" -> "in:f1"
            [] file = "f2.yaml" -> IF cfg.fault = "readF2" THEN "in:bad" ELSE "in:f2"
            [] file = "chain.yaml" -> "in:deep"
            [] file = "self.yaml" -> "in:loop"
            [] IsWide(file) -> "in:bad"
            [] OTHER -> "text")
    ELSE o[input][file]

Read(o, input, file) ==
  IF input \notin InputDirs /\ ~(input \in DOMAIN o /\ file \in DOMAIN o[input])
    THEN [ok |-> FALSE, docs |-> <<>>]
    ELSE YamlDocs(FileContent(o, input, file))

-----------------------------------------------------------------------------
(* The hash stores                                                         *)

\* yaml.Marshal(ChartHash{Hash: h}) and yaml.Unmarshal into a ChartHash
SumFileContent(h) == <<"hash:", h>>
SumFileCorrupt == <<"not yaml">>

\* An Unmarshal that leaves the ChartHash as it was declared.
SumFileHashZero(content) == [hash |-> EmptyDigest, err |-> Nil]

SumFileHash(content) ==
  IF Len(content) = 2 /\ content[1] = "hash:"
    THEN [hash |-> content[2], err |-> Nil]
    ELSE [hash |-> EmptyDigest, err |-> "yaml: unmarshal errors"]

\* hashes.json: whether it exists, whether its bytes are well-formed JSON, and
\* the "key": "value" members that can be read in its bytes, in order.
JSONFile(state, valid, text) == [state |-> state, valid |-> valid, text |-> text]

\* A MarshalIndent that leaves out the last member.
MarshalWithoutLast(m) ==
  LET ks == SelectSeq(KeyOrder, LAMBDA k : k \in DOMAIN m)
  IN [i \in 1..(Len(ks) - 1) |-> <<ks[i], m[ks[i]]>>]

\* json.MarshalIndent of the map: one member per key, the keys sorted.
Marshal(m) ==
  LET ks == SelectSeq(KeyOrder, LAMBDA k : k \in DOMAIN m)
  IN [i \in 1..Len(ks) |-> <<ks[i], m[ks[i]]>>]

\* An Unmarshal that stores the members it can read before it fails.
UnmarshalPartial(file) ==
  [map |-> [k \in {file.text[i][1] : i \in 1..Len(file.text)} |->
              LET j == CHOOSE i \in 1..Len(file.text) : file.text[i][1] = k
              IN file.text[j][2]],
   err |-> IF file.valid THEN Nil ELSE "invalid character"]

\* json.Unmarshal into a map: bytes that are not well-formed are rejected
\* before anything is stored; of a repeated key the last member stays.
Unmarshal(file) ==
  IF ~file.valid
    THEN [map |-> EmptyMap, err |-> "invalid character"]
    ELSE [map |-> [k \in {file.text[i][1] : i \in 1..Len(file.text)} |->
                     LET j == CHOOSE i \in 1..Len(file.text) :
                                /\ file.text[i][1] = k
                                /\ \A l \in (i + 1)..Len(file.text) : file.text[l][1] # k
                     IN file.text[j][2]],
          err |-> Nil]

\* NewJSONHashStore: a missing file and an Unmarshal error leave the map
\* empty; any other read error is returned.
NewJSONHashStore(file) ==
  IF file.state = "unreadable"
    THEN [hashes |-> EmptyMap, err |-> "read failed"]
    ELSE LET loaded == IF file.state = "file" THEN Unmarshal(file).map ELSE EmptyMap
         IN [hashes |-> With(loaded, SentinelKey, SentinelValue), err |-> Nil]

\* A Get that fails for a name without a record.
StoreGetMissingFails(o, m, n) ==
  IF cfg.backend = "json"
    THEN IF n \in DOMAIN m THEN [hash |-> m[n], err |-> Nil]
                           ELSE [hash |-> EmptyDigest, err |-> "no record"]
    ELSE IF n \in DOMAIN o /\ "hash.sum" \in DOMAIN o[n]
           THEN SumFileHash(o[n]["hash.sum"])
           ELSE [hash |-> EmptyDigest, err |-> "no such file or directory"]

\* HashStore.Get for the configured backend, given the output tree o and the
\* map m: the digest and the error.
StoreGet(o, m, n) ==
  IF cfg.backend = "json"
    THEN [hash |-> IF n \in DOMAIN m THEN m[n] ELSE EmptyDigest, err |-> Nil]
    ELSE IF n \in DOMAIN o /\ "hash.sum" \in DOMAIN o[n]
           THEN SumFileHash(o[n]["hash.sum"])
           ELSE [hash |-> EmptyDigest, err |-> Nil]

\* An assignment that leaves only the new key in the map.
MapAssignReplacing(m, n, h) == With(With(EmptyMap, SentinelKey, SentinelValue), n, h)

\* s.hashes[name] = hash, with s.mu held.
MapAssign(m, n, h) == With(m, n, h)

\* An Add that records nothing.
StoreAddDropped(o, m, n, h) == [out |-> o, mem |-> m, err |-> Nil]

\* HashStore.Add for the configured backend, given the output tree o and the
\* map m: the new tree, the new map and the error.
StoreAdd(o, m, n, h) ==
  IF cfg.backend = "json"
    THEN [out |-> o, mem |-> MapAssign(m, n, h), err |-> Nil]
    ELSE IF cfg.strategy = HashStrategyRead
      THEN [out |-> o, mem |-> m, err |-> Nil]
      ELSE IF n \in DOMAIN o
        THEN [out |-> With(o, n, With(o[n], "hash.sum", SumFileContent(h))),
              mem |-> m, err |-> Nil]
        ELSE [out |-> o, mem |-> m, err |-> "write hash.sum failed"]

\* HashStore.Save for the configured backend: the new hashes.json and the error.
StoreSave(file, m) ==
  IF cfg.backend = "json"
    THEN IF cfg.strategy = HashStrategyRead
      THEN [file |-> file, err |-> Nil]
      ELSE IF cfg.fault = "save"
        THEN [file |-> file, err |-> "write hashes.json failed"]
        ELSE [file |-> JSONFile("file", TRUE, Marshal(m)), err |-> Nil]
    ELSE [file |-> file, err |-> Nil]

-----------------------------------------------------------------------------
(* The state before the first run                                          *)

PriorDir(content, h) ==
  IF cfg.backend = "sumfile"
    THEN [x \in {"manifest.yaml", "hash.sum"} |->
            IF x = "hash.sum" THEN SumFileContent(h) ELSE content]
    ELSE [x \in {"manifest.yaml"} |-> content]

\* With the fault "getB" the directory of b is there with a hash.sum that
\* does not parse.
PriorOut ==
  [n \in {"s", "k", "e", "c-ignore"} \cup (IF cfg.fault = "getB" THEN {"b"} ELSE {}) |->
     CASE n = "s" -> PriorDir("m:leaf", <<"sha256", "s", "helm">>)
       [] n = "k" -> PriorDir("m:k-old", <<"sha256", "k", "helm">>)
       [] n = "e" -> PriorDir("m:leaf", <<"sha256", "e", "helm">>)
       [] n = "b" -> IF cfg.backend = "sumfile"
                       THEN [x \in {"manifest.yaml", "hash.sum"} |->
                               IF x = "hash.sum" THEN SumFileCorrupt ELSE "m:b"]
                       ELSE PriorDir("m:b", EmptyDigest)
       [] OTHER -> PriorDir("m:leaf", <<"sha256", "c-ignore", "helm">>)]

PriorJSON ==
  JSONFile("file", TRUE,
           Marshal([n \in {SentinelKey, "s", "k", "e", "c-ignore"} |->
                      IF n = SentinelKey THEN SentinelValue
                                         ELSE <<"sha256", n, "helm">>]))

NoJSON == JSONFile("absent", FALSE, <<>>)

\* The value files of the working directory.
WorkFiles ==
  [f \in {<<"overrides", "a.yaml">>, <<"overrides", "b.yaml">>,
          <<"overrides-to-ignore", "b.yaml">>, <<"overrides", "d.yaml">>} |-> "v1"]

NoEdits == [files |-> WorkFiles, edited |-> {}, deleted |-> {}, at |-> 0]

NoHist ==
  [outStart |-> EmptyMap, jsonStart |-> NoJSON, prevOk |-> FALSE,
   saveCalled |-> FALSE, saveErr |-> Nil, pruneStart |-> EmptyMap,
   pruned |-> {}]

\* The flags and the state before the first run, for the given -root values.
InitWith(roots, suffixes) ==
  /\ cfg \in [root : roots, backend : Backends, strategy : Strategies,
              maxDepth : Depths, fault : Faults, ignoreSuffix : suffixes,
              ignoreValueFile : {"overrides-to-ignore"}]
  /\ env = NoEdits
  /\ run = 0
  /\ wpc = "idle"
  /\ walkErr = Nil
  /\ visited = {}
  /\ mem = EmptyMap
  /\ jsonFile = IF cfg.backend = "json" THEN PriorJSON ELSE NoJSON
  /\ out = PriorOut
  /\ frames = EmptyMap
  /\ units = EmptyMap
  /\ pruneList = <<>>
  /\ trace = EmptyMap
  /\ hist = NoHist

\* The -ignore-suffix flag left at its default.
InitOf(roots) == InitWith(roots, {"-ignore"})

Init == InitOf({"root"})

-----------------------------------------------------------------------------
(* Walker.walk: the part run by the caller                                 *)

\* A directory read that finds no entry in an output directory.
ReadDirOutputEmpty(o, input) == IF input \in InputDirs THEN InputEntries(input) ELSE <<>>

\* os.ReadDir
ReadDir(o, input) ==
  IF input \in InputDirs
    THEN InputEntries(input)
    ELSE SelectSeq(DirFileOrder, LAMBDA f : f \in DOMAIN o[input])

Frame(pc, ret, input, depth, fi) ==
  [pc |-> pc, ret |-> ret, input |-> input, depth |-> depth, fi |-> fi,
   next |-> 1, wg |-> 0, sem |-> 0, errChan |-> <<>>]

\* A depth check that stops one level early.
NewFrameStopsEarly(o, input, depth) ==
  IF cfg.maxDepth # InfiniteDepth /\ depth >= cfg.maxDepth
    THEN Frame("ret", Nil, input, depth, <<>>)
    ELSE IF input \notin InputDirs /\ input \notin DOMAIN o
      THEN Frame("ret", "readdir failed", input, depth, <<>>)
      ELSE Frame("loop", Nil, input, depth, ReadDir(o, input))

\* The call walk(input, ..., depth, ...) up to the start of the loop.
NewFrame(o, input, depth) ==
  IF cfg.maxDepth # InfiniteDepth /\ depth > cfg.maxDepth
    THEN Frame("ret", Nil, input, depth, <<>>)
    ELSE IF input \notin InputDirs /\ input \notin DOMAIN o
      THEN Frame("ret", "readdir failed", input, depth, <<>>)
      ELSE Frame("loop", Nil, input, depth, ReadDir(o, input))

NewUnit(file) ==
  [pc |-> "read", file |-> file, crds |-> <<>>, i |-> 1,
   hash |-> EmptyDigest, hashGenerated |-> EmptyDigest]

Event(ev, d, p, e) == [ev |-> ev, d |-> d, p |-> p, e |-> e]
Ev(ev) == Event(ev, EmptyDigest, EmptyDigest, "")

\* What is at path/manifest.yaml, for the history.
ManifestState(o, n) ==
  IF n \in DOMAIN o /\ "manifest.yaml" \in DOMAIN o[n]
    THEN IF o[n]["manifest.yaml"] = "" THEN "empty" ELSE "nonempty"
    ELSE "missing"

Log(occ, e) ==
  With(trace, occ, (IF occ \in DOMAIN trace THEN trace[occ] ELSE <<>>) \o <<e>>)

\* main: getHashStore and the call of Walk up to the call of walk.
StartWalk ==
  /\ wpc \in {"idle", "done"}
  /\ run < MaxRuns
  /\ run' = run + 1
  /\ wpc' = "walk"
  /\ walkErr' = Nil
  /\ visited' = {}
  /\ cfg.backend = "json" => NewJSONHashStore(jsonFile).err = Nil
  /\ mem' = IF cfg.backend = "json" THEN NewJSONHashStore(jsonFile).hashes
                                    ELSE EmptyMap
  /\ frames' = With(EmptyMap, <<>>, NewFrame(out, cfg.root, 0))
  /\ units' = EmptyMap
  /\ pruneList' = <<>>
  /\ trace' = EmptyMap
  /\ hist' = [NoHist EXCEPT !.outStart = out, !.jsonStart = jsonFile,
                            !.prevOk = (wpc = "done" /\ walkErr = Nil)]
  /\ UNCHANGED <<cfg, env, jsonFile, out>>

\* A semaphore that never blocks.
SemaphoreNeverFull(fr) == TRUE

\* "semaphore <- struct{}{}" can proceed: the buffer of 10 is not full.
SemaphoreFree(fr) == fr.sem < SemaphoreSize

\* One iteration of "for _, file := range fi": skip, or start a goroutine.
FrameLoop(f) ==
  /\ f \in DOMAIN frames
  /\ frames[f].pc = "loop"
  /\ LET fr == frames[f]
     IN /\ fr.next <= Len(fr.fi)
        /\ IF ~IsYaml(fr.fi[fr.next])
             THEN /\ frames' = [frames EXCEPT ![f].next = fr.next + 1]
                  /\ UNCHANGED units
             ELSE /\ SemaphoreFree(fr)
                  /\ frames' = [frames EXCEPT ![f].next = fr.next + 1,
                                              ![f].wg = fr.wg + 1,
                                              ![f].sem = fr.sem + 1]
                  /\ units' = With(units, f \o <<fr.next>>, NewUnit(fr.fi[fr.next]))
  /\ UNCHANGED <<cfg, env, run, wpc, walkErr, visited, mem, jsonFile, out, pruneList,
                 trace, hist>>

\* A walk that never reports the errors of its goroutines.
FirstErrorDropped(ch) == Nil

\* The first error of the closed channel, or nil.
FirstError(ch) == IF ch = <<>> THEN Nil ELSE ch[1]

\* A wait that does not wait.
WaitGroupIgnored(fr) == TRUE

\* wg.Wait() returns.
WaitGroupZero(fr) == fr.wg = 0

\* After the loop: wg.Wait(), close(errChan) and the loop over the errors.
FrameWait(f) ==
  /\ f \in DOMAIN frames
  /\ frames[f].pc = "loop"
  /\ frames[f].next > Len(frames[f].fi)
  /\ WaitGroupZero(frames[f])
  /\ frames' = [frames EXCEPT ![f].pc = "ret",
                              ![f].ret = FirstError(frames[f].errChan)]
  /\ UNCHANGED <<cfg, env, run, wpc, walkErr, visited, mem, jsonFile, out, units,
                 pruneList, trace, hist>>

-----------------------------------------------------------------------------
(* Walker.walk: the goroutine started for one directory entry              *)

Occ(u) == u \o <<units[u].i>>
Crd(u) == units[u].crds[units[u].i]

\* An error channel without a buffer.
ErrChanUnbuffered(fr) == 0

\* make(chan error, len(fi))
ErrChanCapacity(fr) == Len(fr.fi)

\* "errChan <- err" can proceed: the buffer is not full.  Nothing receives
\* from the channel before wg.Wait() has returned.
CanSend(u) == Len(frames[Front(u)].errChan) < ErrChanCapacity(frames[Front(u)])

\* A goroutine that keeps its slot when it returns with an error.
ReturnedKeepingSlot(u, err) ==
  [frames EXCEPT ![Front(u)].wg = @ - 1,
                 ![Front(u)].sem = IF err = Nil THEN @ - 1 ELSE @,
                 ![Front(u)].errChan = IF err = Nil THEN @ ELSE Append(@, err)]

\* The goroutine returns: the error, if any, goes to errChan, then the
\* deferred semaphore release and wg.Done() run.
Returned(u, err) ==
  [frames EXCEPT ![Front(u)].wg = @ - 1,
                 ![Front(u)].sem = @ - 1,
                 ![Front(u)].errChan = IF err = Nil THEN @ ELSE Append(@, err)]

\* "continue": on to the next document of the file.
Continue(u) == [units EXCEPT ![u].i = @ + 1, ![u].pc = "next"]

\* A goroutine that goes on to its next document after an error.
ContinueAfterError(u) == [units EXCEPT ![u].i = @ + 1, ![u].pc = "next"]

\* "return": the goroutine ends.
Stop(u) == [units EXCEPT ![u].pc = "done"]

\* A skip that falls through to the recursion.
SkipThenRecurse(u) == [units EXCEPT ![u].pc = "recurse"]

\* errors.Is(err, kustomize.ErrNotSupported): continue.
SkipUnsupported(u) == Continue(u)

\* The render branch without the test of the manifest.
NeedsRenderDigestOnly(hash, hashGenerated, emptyManifest) ==
  hashGenerated # hash

\* The condition of the render branch.
NeedsRender(hash, hashGenerated, emptyManifest) ==
  hashGenerated # hash \/ emptyManifest

\* A cache hit that goes on to Add.
AfterDecisionAlwaysAdd(required) == IF required THEN "render" ELSE "add"

\* Where the goroutine goes after the test of the render branch: into the
\* branch, or past it to the recursion.
AfterDecision(required) == IF required THEN "render" ELSE "recurse"

\* A goroutine that reads the loop variable of its walk instead of its own
\* argument.
FileOfLoopVariable(u) ==
  LET fr == frames[Front(u)]
  IN fr.fi[IF fr.next > 1 THEN fr.next - 1 ELSE 1]

\* The argument of "go func(file os.DirEntry) {...}(file)".
FileOf(u) == units[u].file

\* helm.Read of the goroutine's file.
UnitRead(u) ==
  /\ u \in DOMAIN units
  /\ units[u].pc = "read"
  /\ LET r == Read(out, frames[Front(u)].input, FileOf(u))
     IN IF r.ok
          THEN /\ units' = [units EXCEPT ![u].crds = r.docs, ![u].pc = "next"]
               /\ UNCHANGED frames
          ELSE /\ units' = Stop(u)
               /\ CanSend(u) /\ frames' = Returned(u, "read failed")
  /\ UNCHANGED <<cfg, env, run, wpc, walkErr, visited, mem, jsonFile, out, pruneList,
                 trace, hist>>

\* The head of "for _, crd := range crds": the two filters and visited.Set.
UnitNext(u) ==
  /\ u \in DOMAIN units
  /\ units[u].pc = "next"
  /\ IF units[u].i > Len(units[u].crds)
       THEN /\ units' = Stop(u)
            /\ frames' = Returned(u, Nil)
            /\ UNCHANGED <<visited, trace>>
       ELSE IF Crd(u).kind # "Application"
         THEN /\ units' = Continue(u)
              /\ UNCHANGED <<frames, visited, trace>>
         ELSE IF HasSuffix(Crd(u).name, cfg.ignoreSuffix)
           THEN /\ units' = Continue(u)
                /\ UNCHANGED <<frames, visited, trace>>
           ELSE /\ visited' = visited \cup {Crd(u).name}
                /\ units' = [units EXCEPT ![u].pc = "get"]
                /\ trace' = Log(Occ(u), Ev("visit"))
                /\ UNCHANGED frames
  /\ UNCHANGED <<cfg, env, run, wpc, walkErr, mem, jsonFile, out, pruneList, hist>>

\* hashes.Get
UnitGet(u) ==
  /\ u \in DOMAIN units
  /\ units[u].pc = "get"
  /\ LET g == StoreGet(out, mem, Crd(u).name)
     IN IF g.err # Nil
          THEN /\ units' = Stop(u)
               /\ CanSend(u) /\ frames' = Returned(u, g.err)
               /\ trace' = Log(Occ(u), Ev("getfailed"))
          ELSE /\ units' = [units EXCEPT ![u].hash = g.hash, ![u].pc = "hash"]
               /\ trace' = Log(Occ(u), Ev("get"))
               /\ UNCHANGED frames
  /\ UNCHANGED <<cfg, env, run, wpc, walkErr, visited, mem, jsonFile, out,
                 pruneList, hist>>

\* w.GenerateHash and the handling of its error, helm.EmptyManifest and the
\* test of the render branch
UnitHash(u) ==
  /\ u \in DOMAIN units
  /\ units[u].pc = "hash"
  /\ LET g == GenerateHash(Crd(u))
         e == EmptyManifest(out, Crd(u).name)
         r == NeedsRender(units[u].hash, g.hash, e)
     IN IF g.err = ErrNotSupported
          THEN /\ units' = SkipUnsupported(u)
               /\ trace' = Log(Occ(u), Ev("unsupported"))
               /\ UNCHANGED frames
          ELSE IF g.err # Nil
            THEN /\ units' = Stop(u)
                 /\ CanSend(u) /\ frames' = Returned(u, g.err)
                 /\ trace' = Log(Occ(u), Ev("hashfailed"))
            ELSE /\ units' = [units EXCEPT ![u].hashGenerated = g.hash,
                                           ![u].pc = AfterDecision(r)]
                 /\ trace' = Log(Occ(u), Event(IF r THEN "stale" ELSE "hit",
                                               g.hash, units[u].hash,
                                               ManifestState(out, Crd(u).name)))
                 /\ UNCHANGED frames
  /\ UNCHANGED <<cfg, env, run, wpc, walkErr, visited, mem, jsonFile, out, pruneList,
                 hist>>

\* A switch that tests the Kustomize block first.
RendererKustomizeFirst(crd) ==
  IF HasKustomize(crd) THEN ErrNotSupported
  ELSE IF HasHelm(crd) THEN "HelmTemplate"
  ELSE "CopySource"

\* The switch of Walker.Render: the renderer chosen, or the error returned.
Renderer(crd) ==
  IF HasHelm(crd) THEN "HelmTemplate"
  ELSE IF HasKustomize(crd) THEN ErrNotSupported
  ELSE "CopySource"

\* A Render that leaves the output path as it is before it renders.
UnitRenderInPlace(u) ==
  /\ u \in DOMAIN units
  /\ units[u].pc = "render"
  /\ IF Renderer(Crd(u)) = ErrNotSupported
       THEN /\ units' = SkipUnsupported(u)
            /\ trace' = Log(Occ(u), Ev("unsupported"))
       ELSE /\ units' = [units EXCEPT ![u].pc = "render2"]
            /\ trace' = Log(Occ(u), Ev("render"))
  /\ UNCHANGED <<cfg, env, run, wpc, walkErr, visited, mem, jsonFile, out, frames,
                 pruneList, hist>>

\* Walker.Render up to os.RemoveAll(output)
UnitRender(u) ==
  /\ u \in DOMAIN units
  /\ units[u].pc = "render"
  /\ IF Renderer(Crd(u)) = ErrNotSupported
       THEN /\ units' = SkipUnsupported(u)
            /\ trace' = Log(Occ(u), Ev("unsupported"))
            /\ UNCHANGED out
       ELSE /\ out' = Without(out, Crd(u).name)
            /\ units' = [units EXCEPT ![u].pc = "render2"]
            /\ trace' = Log(Occ(u), Ev("render"))
  /\ UNCHANGED <<cfg, env, run, wpc, walkErr, visited, mem, jsonFile, frames,
                 pruneList, hist>>

\* -post-renderer is set in the runs of these two scenarios.
HookConfigured == cfg.fault \in {"hookFail", "renderC"}
HookFails(n) == cfg.fault = "hookFail" /\ n = "a"

\* main.PostRender(command)(output): the command is run with the output path
\* as its only argument.
PostRender(output) == IF HookFails(output) THEN "exit status 1" ELSE Nil

\* A Render that does not look at what the hook returned.
RenderErrorHookIgnored(renderErr, output) == renderErr

\* What Render returns once the renderer has returned renderErr.
RenderError(renderErr, output) ==
  IF renderErr # Nil
    THEN renderErr
    ELSE IF HookConfigured /\ PostRender(output) # Nil
      THEN "post render failed"
      ELSE Nil

LogAll(occ, es) ==
  With(trace, occ, (IF occ \in DOMAIN trace THEN trace[occ] ELSE <<>>) \o es)

\* Walker.Render from the call of the renderer on, and the handling of its
\* error by walk
UnitRender2(u) ==
  /\ u \in DOMAIN units
  /\ units[u].pc = "render2"
  /\ LET n == Crd(u).name
         r == IF Renderer(Crd(u)) = "HelmTemplate" THEN Run(out, Crd(u), n)
                                     ELSE CopySource(out, Crd(u), n)
         hooked == r.err = Nil /\ HookConfigured
         err == RenderError(r.err, n)
     IN /\ out' = r.out
        /\ trace' = LogAll(Occ(u),
                           <<Ev(IF r.err = Nil THEN "rendered" ELSE "renderfailed")>>
                             \o (IF hooked
                                   THEN <<Event(IF PostRender(n) = Nil THEN "hook"
                                                                       ELSE "hookfailed",
                                                EmptyDigest, EmptyDigest, n)>>
                                   ELSE <<>>))
        /\ IF err # Nil
             THEN /\ units' = Stop(u)
                  /\ CanSend(u) /\ frames' = Returned(u, err)
             ELSE /\ units' = [units EXCEPT ![u].pc = "add"]
                  /\ UNCHANGED frames
  /\ UNCHANGED <<cfg, env, run, wpc, walkErr, visited, mem, jsonFile, pruneList, hist>>

\* The digest read from the cache passed to Add.
AddArgumentStale(un) == un.hash

\* The digest passed to hashes.Add
AddArgument(un) == un.hashGenerated

\* hashes.Add
UnitAdd(u) ==
  /\ u \in DOMAIN units
  /\ units[u].pc = "add"
  /\ LET a == StoreAdd(out, mem, Crd(u).name, AddArgument(units[u]))
     IN /\ out' = a.out
        /\ mem' = a.mem
        /\ IF a.err # Nil
             THEN /\ units' = Stop(u)
                  /\ CanSend(u) /\ frames' = Returned(u, a.err)
                  /\ trace' = Log(Occ(u), Ev("addfailed"))
             ELSE /\ units' = [units EXCEPT ![u].pc = "recurse"]
                  /\ trace' = Log(Occ(u), Event("add", AddArgument(units[u]),
                                                EmptyDigest, ""))
                  /\ UNCHANGED frames
  /\ UNCHANGED <<cfg, env, run, wpc, walkErr, visited, jsonFile, pruneList, hist>>

\* The recursive call w.walk(path, outputPath, depth+1, ...)
UnitRecurse(u) ==
  /\ u \in DOMAIN units
  /\ units[u].pc = "recurse"
  /\ frames[Front(u)].depth < MaxWalkDepth
  /\ frames' = With(frames, Occ(u),
                    NewFrame(out, Crd(u).name, frames[Front(u)].depth + 1))
  /\ units' = [units EXCEPT ![u].pc = "waitwalk"]
  /\ trace' = Log(Occ(u), Ev("recurse"))
  /\ UNCHANGED <<cfg, env, run, wpc, walkErr, visited, mem, jsonFile, out, pruneList,
                 hist>>

\* A goroutine that does not wait for its recursive call.
UnitReturnEarly(u) ==
  /\ u \in DOMAIN units
  /\ units[u].pc = "waitwalk"
  /\ units' = Continue(u)
  /\ trace' = Log(Occ(u), Ev("returned"))
  /\ UNCHANGED <<cfg, env, run, wpc, walkErr, visited, mem, jsonFile, out, frames,
                 pruneList, hist>>

\* The recursive call returns.
UnitReturn(u) ==
  /\ u \in DOMAIN units
  /\ units[u].pc = "waitwalk"
  /\ frames[Occ(u)].pc = "ret"
  /\ IF frames[Occ(u)].ret # Nil
       THEN /\ units' = Stop(u)
            /\ CanSend(u) /\ frames' = Returned(u, frames[Occ(u)].ret)
       ELSE /\ units' = Continue(u)
            /\ UNCHANGED frames
  /\ trace' = Log(Occ(u), Ev("returned"))
  /\ UNCHANGED <<cfg, env, run, wpc, walkErr, visited, mem, jsonFile, out, pruneList,
                 hist>>

-----------------------------------------------------------------------------
(* Walker.Walk after the traversal, and pruneUnvisited                     *)

\* A Walk that goes on to Save whatever walk returned.
WalkReturnIgnoringError ==
  /\ wpc = "walk"
  /\ frames[<<>>].pc = "ret"
  /\ wpc' = "save"
  /\ UNCHANGED <<cfg, env, run, walkErr, visited, mem, jsonFile, out, frames, units,
                 pruneList, trace, hist>>

\* walk returned to Walk.
WalkReturn ==
  /\ wpc = "walk"
  /\ frames[<<>>].pc = "ret"
  /\ IF frames[<<>>].ret # Nil
       THEN /\ walkErr' = frames[<<>>].ret
            /\ wpc' = "done"
       ELSE /\ wpc' = "save"
            /\ UNCHANGED walkErr
  /\ UNCHANGED <<cfg, env, run, visited, mem, jsonFile, out, frames, units, pruneList,
                 trace, hist>>

\* A prune at every depth limit.
ShouldPruneAlways(maxDepth) == TRUE

\* maxDepth == InfiniteDepth
ShouldPrune(maxDepth) == maxDepth = InfiniteDepth

\* hashes.Save() and the test of maxDepth
Save ==
  /\ wpc = "save"
  /\ LET r == StoreSave(jsonFile, mem)
     IN /\ jsonFile' = r.file
        /\ hist' = [hist EXCEPT !.saveCalled = TRUE, !.saveErr = r.err]
        /\ walkErr' = r.err
        /\ wpc' = IF r.err # Nil THEN "done"
                  ELSE IF ShouldPrune(cfg.maxDepth) THEN "prune" ELSE "done"
  /\ UNCHANGED <<cfg, env, run, visited, mem, out, frames, units, pruneList, trace>>

IsDir(e) == e \in DirNames

\* os.ReadDir(outputPath)
TopEntries(o, file) ==
  SelectSeq(TopOrder, LAMBDA e : IF IsDir(e) THEN e \in DOMAIN o
                                             ELSE file.state # "absent")

PruneStart ==
  /\ wpc = "prune"
  /\ pruneList' = TopEntries(out, jsonFile)
  /\ hist' = [hist EXCEPT !.pruneStart = out]
  /\ wpc' = "pruneloop"
  /\ UNCHANGED <<cfg, env, run, walkErr, visited, mem, jsonFile, out, frames, units,
                 trace>>

\* A prune that does not look at the visited set.
PruneRemovesAnyDir(vis, e) == IsDir(e)

\* A prune that does not test whether the entry is a directory.
PruneRemovesAnyEntry(vis, e) == e \notin vis

\* An entry that is neither skipped as a non-directory nor as visited.
PruneRemoves(vis, e) == IsDir(e) /\ e \notin vis

\* os.RemoveAll(filepath.Join(outputPath, e)): the new tree and hashes.json
RemoveAll(o, file, e) ==
  [out |-> Without(o, e), file |-> IF e = "hashes.json" THEN NoJSON ELSE file]

\* One iteration of "for _, f := range files", or the return after the loop.
PruneStep ==
  /\ wpc = "pruneloop"
  /\ IF pruneList = <<>>
       THEN /\ wpc' = "done"
            /\ walkErr' = Nil
            /\ UNCHANGED <<out, jsonFile, pruneList, hist>>
       ELSE LET e == Head(pruneList)
            IN IF ~PruneRemoves(visited, e)
                 THEN /\ pruneList' = Tail(pruneList)
                      /\ UNCHANGED <<out, jsonFile, wpc, walkErr, hist>>
                 ELSE IF cfg.fault = "prune"
                   THEN /\ wpc' = "done"
                        /\ walkErr' = "remove failed"
                        /\ UNCHANGED <<out, jsonFile, pruneList, hist>>
                   ELSE /\ out' = RemoveAll(out, jsonFile, e).out
                        /\ jsonFile' = RemoveAll(out, jsonFile, e).file
                        /\ pruneList' = Tail(pruneList)
                        /\ hist' = [hist EXCEPT !.pruned = @ \cup {e}]
                        /\ UNCHANGED <<wpc, walkErr>>
  /\ UNCHANGED <<cfg, env, run, visited, mem, frames, units, trace>>

-----------------------------------------------------------------------------
Next ==
  \/ StartWalk
  \/ \E f \in DOMAIN frames : FrameLoop(f)
  \/ \E f \in DOMAIN frames : FrameWait(f)
  \/ \E u \in DOMAIN units : UnitRead(u)
  \/ \E u \in DOMAIN units : UnitNext(u)
  \/ \E u \in DOMAIN units : UnitGet(u)
  \/ \E u \in DOMAIN units : UnitHash(u)
  \/ \E u \in DOMAIN units : UnitRender(u)
  \/ \E u \in DOMAIN units : UnitRender2(u)
  \/ \E u \in DOMAIN units : UnitAdd(u)
  \/ \E u \in DOMAIN units : UnitRecurse(u)
  \/ \E u \in DOMAIN units : UnitReturn(u)
  \/ WalkReturn
  \/ Save
  \/ PruneStart
  \/ PruneStep

Spec == Init /\ [][Next]_vars

-----------------------------------------------------------------------------
(* Runs with a change made by hand between them: a value file is edited,   *)
(* or a manifest.yaml is deleted from the output.                          *)

BetweenRuns ==
  /\ wpc = "done"
  /\ run < MaxRuns
  /\ env.edited = {} /\ env.deleted = {}

\* The content generalHashFunction reads from a value file changes.
EditValueFile(f) ==
  /\ BetweenRuns
  /\ f \in DOMAIN env.files
  /\ env' = [env EXCEPT !.files[f] = "v2", !.edited = {f}, !.at = run]
  /\ UNCHANGED <<cfg, run, wpc, walkErr, visited, mem, jsonFile, out, frames,
                 units, pruneList, trace, hist>>

\* The file EmptyManifest looks at is removed.
DeleteManifest(n) ==
  /\ BetweenRuns
  /\ n \in DOMAIN out /\ "manifest.yaml" \in DOMAIN out[n]
  /\ out' = [out EXCEPT ![n] = Without(@, "manifest.yaml")]
  /\ env' = [env EXCEPT !.deleted = {n}, !.at = run]
  /\ UNCHANGED <<cfg, run, wpc, walkErr, visited, mem, jsonFile, frames, units,
                 pruneList, trace, hist>>

InitEnv ==
  /\ Init
  /\ cfg.strategy = HashStrategyReadWrite
  /\ cfg.maxDepth = InfiniteDepth
  /\ cfg.fault \in {"none", "emptyB"}

NextEnv ==
  \/ Next
  \/ \E f \in DOMAIN env.files : EditValueFile(f)
  \/ \E n \in {"a", "b"} : DeleteManifest(n)

SpecEnv == InitEnv /\ [][NextEnv]_vars

-----------------------------------------------------------------------------
(* Runs over the deep and the wide input directory                         *)

InitGate ==
  /\ InitOf({"deep", "wide"})
  /\ cfg.strategy = HashStrategyReadWrite
  /\ cfg.maxDepth = InfiniteDepth
  /\ cfg.fault = "none"

SpecGate == InitGate /\ [][Next]_vars

\* Every goroutine that can take a step is scheduled in the end, and the
\* caller of Walk goes on: a step that stays possible is taken.
SpecGateFair == InitGate /\ [][Next]_vars /\ WF_vars(Next)

-----------------------------------------------------------------------------
(* The walk under the values of the -ignore-suffix flag: the default and   *)
(* the empty string, which the flag accepts.                               *)

IgnoreSuffixes == {"-ignore", ""}

InitSuffix ==
  /\ InitWith({"root"}, IgnoreSuffixes)
  /\ cfg.strategy = HashStrategyReadWrite
  /\ cfg.fault = "none"

SpecSuffix == InitSuffix /\ [][Next]_vars

-----------------------------------------------------------------------------
(* helm.buildParams and helm.GenerateHash on one payload, over working     *)
(* directories in which some of the value files are missing.               *)

\* A helm payload with Spec.Source.Helm.IgnoreMissingValueFiles
HelmApp(n, ignoreMissing) ==
  [name |-> n, kind |-> "Application", src |-> "helm", valueFiles |-> ValueFiles(n),
   ignoreMissingValueFiles |-> ignoreMissing]

ParamCrds == {HelmApp(n, b) : n \in {"a", "b", "d"}, b \in BOOLEAN}

\* fileExists(path.Join(payload.Spec.Source.Path, file)): the chart directory
\* is two levels below the working directory.
fileExists(file) == TrimDots(file) \in DOMAIN env.files

\* helm.buildParams: the value files handed to the renderer, in order
buildParams(payload) ==
  SelectSeq(payload.valueFiles,
            LAMBDA f :
              LET isExplicitlyIgnored ==
                    cfg.ignoreValueFile # "" /\ Contains(f, cfg.ignoreValueFile)
                  isMissingAndShouldBeIgnored ==
                    ~fileExists(f) /\ payload.ignoreMissingValueFiles
              IN ~isExplicitlyIgnored /\ ~isMissingAndShouldBeIgnored)

NoParams == [pc |-> "idle", crd |-> HelmApp("a", FALSE), fileValues |-> <<>>,
             digest |-> [hash |-> EmptyDigest, err |-> Nil]]

InitParams ==
  /\ cfg \in [root : {"root"}, backend : {"sumfile"}, strategy : {HashStrategyReadWrite},
              maxDepth : {InfiniteDepth}, fault : {"none"}, ignoreSuffix : {"-ignore"},
              ignoreValueFile : {"overrides-to-ignore", ""}]
  /\ \E present \in SUBSET DOMAIN WorkFiles :
       env = [NoEdits EXCEPT !.files = [f \in present |-> WorkFiles[f]]]
  /\ run = 0
  /\ wpc = "idle"
  /\ walkErr = Nil
  /\ visited = {}
  /\ mem = EmptyMap
  /\ jsonFile = NoJSON
  /\ out = EmptyMap
  /\ frames = EmptyMap
  /\ units = EmptyMap
  /\ pruneList = <<>>
  /\ trace = EmptyMap
  /\ hist = NoParams

ParamsUnchanged ==
  UNCHANGED <<cfg, env, run, wpc, walkErr, visited, mem, jsonFile, out, frames, units,
              pruneList, trace>>

\* A payload is taken up
ParamsCall(crd) ==
  /\ hist.pc = "idle"
  /\ hist' = [NoParams EXCEPT !.pc = "hash", !.crd = crd]
  /\ ParamsUnchanged

\* walk: w.GenerateHash(crd)
ParamsHash ==
  /\ hist.pc = "hash"
  /\ hist' = [hist EXCEPT !.pc = "build", !.digest = GenerateHash(hist.crd)]
  /\ ParamsUnchanged

\* template: buildParams(helmInfo, ignoreValueFile)
ParamsBuild ==
  /\ hist.pc = "build"
  /\ hist' = [hist EXCEPT !.pc = "built", !.fileValues = buildParams(hist.crd)]
  /\ ParamsUnchanged

ParamsReturn ==
  /\ hist.pc = "built"
  /\ hist' = [hist EXCEPT !.pc = "idle"]
  /\ ParamsUnchanged

NextParams ==
  \/ \E crd \in ParamCrds : ParamsCall(crd)
  \/ ParamsHash
  \/ ParamsBuild
  \/ ParamsReturn

SpecParams == InitParams /\ [][NextParams]_vars

-----------------------------------------------------------------------------
(* The walk over "root" and over "loop", whose node declares itself in its *)
(* own output.                                                             *)

InitLoop ==
  /\ InitOf({"root", "loop"})
  /\ cfg.fault = "none"

SpecLoop == InitLoop /\ [][Next]_vars

\* The scheduling of SpecGateFair: a step that stays possible is taken.
SpecLoopFair == InitLoop /\ [][Next]_vars /\ WF_vars(Next)

-----------------------------------------------------------------------------
(* The hash stores called directly: a store is opened on what is on disk,  *)
(* records are added and read, the store is saved, and a store is opened   *)
(* again.  hist holds what the last call returned and what was added.      *)

D1 == <<"sha256", "1">>
D2 == <<"sha256", "2">>
StoreDigests == {D1, D2}

\* The names given to Add and Get.  The key "//" is a name like any other
\* for the JSON store; "b" has no directory for the sum file store to write in.
StoreNames == IF cfg.backend = "json" THEN {"a", SentinelKey} ELSE {"a", "b"}

\* hashes.json before the store is opened: missing, not readable, empty, cut
\* off after its first member, and well-formed.
StoreFiles ==
  {NoJSON,
   JSONFile("unreadable", FALSE, <<>>),
   JSONFile("file", FALSE, <<>>),
   JSONFile("file", FALSE, << <<"a", D1>> >>),
   JSONFile("file", TRUE, << <<SentinelKey, SentinelValue>>, <<"a", D2>> >>)}

\* The output directory before the store is opened: the directory of a
\* without a hash.sum, with one, and with one that does not parse.
StoreDirs ==
  {[n \in {"a"} |-> EmptyMap],
   [n \in {"a"} |-> [x \in {"hash.sum"} |-> SumFileContent(D2)]],
   [n \in {"a"} |-> [x \in {"hash.sum"} |-> SumFileCorrupt]]}

Call(op, n, d, err, wrote) ==
  [op |-> op, name |-> n, digest |-> d, err |-> err, wrote |-> wrote]

InitStore ==
  /\ cfg \in [root : {"root"}, backend : Backends, strategy : {HashStrategyReadWrite},
              maxDepth : {InfiniteDepth}, fault : {"none"}, ignoreSuffix : {"-ignore"},
              ignoreValueFile : {"overrides-to-ignore"}]
  /\ env = NoEdits
  /\ run = 0
  /\ wpc = "idle"
  /\ walkErr = Nil
  /\ visited = {}
  /\ mem = EmptyMap
  /\ jsonFile \in IF cfg.backend = "json" THEN StoreFiles ELSE {NoJSON}
  /\ out \in IF cfg.backend = "sumfile" THEN StoreDirs ELSE {EmptyMap}
  /\ frames = EmptyMap
  /\ units = EmptyMap
  /\ pruneList = <<>>
  /\ trace = EmptyMap
  /\ hist = [opened |-> FALSE, fresh |-> FALSE, adds |-> EmptyMap,
             saved |-> EmptyMap, last |-> Call("none", "", EmptyDigest, Nil, FALSE)]

\* getHashStore(hashStore, hashStrategy, outputPath)
OpenStore(strategy) ==
  /\ cfg' = [cfg EXCEPT !.strategy = strategy]
  /\ LET r == IF cfg.backend = "json" THEN NewJSONHashStore(jsonFile)
                                      ELSE [hashes |-> EmptyMap, err |-> Nil]
     IN /\ mem' = r.hashes
        /\ hist' = [hist EXCEPT !.opened = (r.err = Nil), !.fresh = TRUE,
                                !.adds = EmptyMap,
                                !.last = Call("open", "", EmptyDigest, r.err, FALSE)]
  /\ UNCHANGED <<env, run, wpc, walkErr, visited, jsonFile, out, frames, units,
                 pruneList, trace>>

\* HashStore.Add(n, d) on the open store
AddRecord(n, d) ==
  /\ hist.opened
  /\ LET a == StoreAdd(out, mem, n, d)
     IN /\ out' = a.out
        /\ mem' = a.mem
        /\ hist' = [hist EXCEPT !.fresh = FALSE,
                                !.adds = IF a.err = Nil THEN With(@, n, d) ELSE @,
                                !.last = Call("add", n, StoreGet(out, mem, n).hash,
                                              a.err, a.out # out)]
  /\ UNCHANGED <<cfg, env, run, wpc, walkErr, visited, jsonFile, frames, units,
                 pruneList, trace>>

\* HashStore.Get(n) on the open store
GetRecord(n) ==
  /\ hist.opened
  /\ LET g == StoreGet(out, mem, n)
     IN hist' = [hist EXCEPT !.last = Call("get", n, g.hash, g.err, FALSE)]
  /\ UNCHANGED <<cfg, env, run, wpc, walkErr, visited, mem, jsonFile, out, frames,
                 units, pruneList, trace>>

\* HashStore.Save() on the open store
SaveStore ==
  /\ hist.opened
  /\ LET r == StoreSave(jsonFile, mem)
         written == cfg.backend = "json" /\ cfg.strategy = HashStrategyReadWrite
                      /\ r.err = Nil
     IN /\ jsonFile' = r.file
        /\ hist' = [hist EXCEPT
                      !.saved = IF written
                                  THEN [n \in DOMAIN @ \cup DOMAIN hist.adds |->
                                          IF n \in DOMAIN hist.adds THEN hist.adds[n]
                                                                    ELSE @[n]]
                                  ELSE @,
                      !.last = Call("save", "", EmptyDigest, r.err, r.file # jsonFile)]
  /\ UNCHANGED <<cfg, env, run, wpc, walkErr, visited, mem, out, frames, units,
                 pruneList, trace>>

NextStore ==
  \/ \E strategy \in Strategies : OpenStore(strategy)
  \/ \E n \in StoreNames : \E d \in StoreDigests : AddRecord(n, d)
  \/ \E n \in StoreNames : GetRecord(n)
  \/ SaveStore

SpecStore == InitStore /\ [][NextStore]_vars

-----------------------------------------------------------------------------
(* helm.Run called directly on a chart directory.  hist holds the chart,   *)
(* whether its charts/ directory is filled, the position inside template,  *)
(* every run of the renderer and what template returned.                   *)

\* The recursion of template is followed this deep.
MaxTemplateDepth == 3

MissingInRequirements == "found in requirements.yaml, but missing in charts"
MissingInChart == "found in Chart.yaml, but missing in charts/ directory"

\* A chart without dependencies, charts that declare them in requirements.yaml
\* and in Chart.yaml, and a chart that does not parse.
Charts == {"plain", "requirements", "chart", "broken"}

HelmCrds == {App("a", "helm"), App("b", "helm")}
SkipRenderKeys == {"", "skip"}

\* helm.IsMissingDependencyErr on the renderer's stderr, a sequence of phrases
IsMissingDependencyErr(stderr) ==
  Contains(stderr, MissingInRequirements) \/ Contains(stderr, MissingInChart)

\* The arguments of "helm template"
HelmArgs(crd, skipRenderKey) ==
  <<"helm", "template", crd.name>>
    \o (IF skipRenderKey # "" THEN <<"--set", skipRenderKey>> ELSE <<>>)

\* One run of "helm template" in the chart directory: exit code, stdout, stderr
HelmTemplate(chart, deps, crd, skipRenderKey) ==
  CASE chart = "broken" ->
         [args |-> HelmArgs(crd, skipRenderKey), code |-> 1, stdout |-> "",
          stderr |-> <<"Error:", "parse error">>]
    [] chart = "requirements" /\ ~deps ->
         [args |-> HelmArgs(crd, skipRenderKey), code |-> 1, stdout |-> "",
          stderr |-> <<"Error:", MissingInRequirements>>]
    [] chart = "chart" /\ ~deps ->
         [args |-> HelmArgs(crd, skipRenderKey), code |-> 1, stdout |-> "",
          stderr |-> <<"Error:", MissingInChart>>]
    [] OTHER ->
         [args |-> HelmArgs(crd, skipRenderKey), code |-> 0,
          stdout |-> Manifest(crd), stderr |-> <<>>]

NoResult == [bytes |-> "", err |-> "none"]

InitHelm ==
  /\ cfg \in [root : {"root"}, backend : {"sumfile"}, strategy : {HashStrategyReadWrite},
              maxDepth : {InfiniteDepth}, fault : {"none"}, ignoreSuffix : {"-ignore"},
              ignoreValueFile : {"overrides-to-ignore"}]
  /\ env = NoEdits
  /\ run = 0
  /\ wpc = "idle"
  /\ walkErr = Nil
  /\ visited = {}
  /\ mem = EmptyMap
  /\ jsonFile = NoJSON
  /\ out = EmptyMap
  /\ frames = EmptyMap
  /\ units = EmptyMap
  /\ pruneList = <<>>
  /\ trace = EmptyMap
  /\ \E chart \in Charts : \E deps \in BOOLEAN :
       /\ chart \in {"plain", "broken"} => deps
       /\ hist = [chart |-> chart, deps |-> deps, pc |-> "idle",
                  crd |-> App("a", "helm"), key |-> "", depth |-> 0, runs |-> <<>>,
                  installs |-> 0, result |-> NoResult, err |-> Nil]

HelmUnchanged ==
  UNCHANGED <<cfg, env, run, wpc, walkErr, visited, mem, jsonFile, frames, units,
              pruneList, trace>>

\* helm.Run enters template
TemplateCall(crd, skipRenderKey) ==
  /\ hist.pc = "idle"
  /\ hist' = [hist EXCEPT !.pc = "exec", !.crd = crd, !.key = skipRenderKey,
                          !.depth = 1, !.runs = <<>>, !.installs = 0,
                          !.result = NoResult, !.err = Nil]
  /\ UNCHANGED out
  /\ HelmUnchanged

\* template: cmd.Run and the branch on its error
TemplateExec ==
  /\ hist.pc = "exec"
  /\ LET r == HelmTemplate(hist.chart, hist.deps, hist.crd, hist.key)
     IN hist' = [hist EXCEPT
                   !.runs = Append(@, r),
                   !.pc = IF r.code # 0 /\ IsMissingDependencyErr(r.stderr)
                            THEN "install" ELSE "returned",
                   !.result = IF r.code = 0
                                THEN [bytes |-> r.stdout, err |-> Nil]
                                ELSE IF IsMissingDependencyErr(r.stderr)
                                  THEN @
                                  ELSE [bytes |-> "", err |-> "error templating manifest"]]
  /\ UNCHANGED out
  /\ HelmUnchanged

\* template: installDependencies and what follows it.  When the update fails
\* template calls itself; when it succeeds template goes on to its last line
\* and returns the stdout of the run that failed.
TemplateInstall(updated) ==
  /\ hist.pc = "install"
  /\ IF updated
       THEN hist' = [hist EXCEPT !.installs = @ + 1, !.deps = TRUE, !.pc = "returned",
                                 !.result = [bytes |-> Last(hist.runs).stdout, err |-> Nil]]
       ELSE /\ hist.depth < MaxTemplateDepth
            /\ hist' = [hist EXCEPT !.installs = @ + 1, !.depth = @ + 1, !.pc = "exec"]
  /\ UNCHANGED out
  /\ HelmUnchanged

\* helm.Run after template: the manifest is written when template gave no error
RunReturn ==
  /\ hist.pc = "returned"
  /\ out' = IF hist.result.err # Nil THEN out
            ELSE writeToFile(out, hist.crd.name, hist.result.bytes)
  /\ hist' = [hist EXCEPT !.pc = "idle", !.err = hist.result.err]
  /\ HelmUnchanged

NextHelm ==
  \/ \E crd \in HelmCrds : \E key \in SkipRenderKeys : TemplateCall(crd, key)
  \/ TemplateExec
  \/ \E updated \in BOOLEAN : TemplateInstall(updated)
  \/ RunReturn

SpecHelm == InitHelm /\ [][NextHelm]_vars

-----------------------------------------------------------------------------
(* Walker.Render called directly on an application and its output path.    *)
(* hist holds the application, the position inside Render, the renderers   *)
(* that were called and the error returned.                                *)

RenderNames == {"a", "c"}
Sources == {"helm", "kustomize", "raw", "helm+kustomize"}
RenderCrds == {App(n, s) : n \in RenderNames, s \in Sources}

\* The output path before the call: missing, or left by an earlier render.
RenderDirs ==
  {EmptyMap} \cup {[x \in {n} |-> PriorDir("m:old", D1)] : n \in RenderNames}

InitRender ==
  /\ cfg \in [root : {"root"}, backend : {"sumfile"}, strategy : {HashStrategyReadWrite},
              maxDepth : {InfiniteDepth},
              fault : {"none", "renderA", "renderC", "hookFail"},
              ignoreSuffix : {"-ignore"}, ignoreValueFile : {"overrides-to-ignore"}]
  /\ env = NoEdits
  /\ run = 0
  /\ wpc = "idle"
  /\ walkErr = Nil
  /\ visited = {}
  /\ mem = EmptyMap
  /\ jsonFile = NoJSON
  /\ out \in RenderDirs
  /\ frames = EmptyMap
  /\ units = EmptyMap
  /\ pruneList = <<>>
  /\ trace = EmptyMap
  /\ hist = [pc |-> "idle", crd |-> App("a", "helm"), before |-> out,
             renderer |-> Nil, removed |-> FALSE, invoked |-> <<>>, hooks |-> <<>>,
             err |-> Nil]

RenderUnchanged ==
  UNCHANGED <<cfg, env, run, wpc, walkErr, visited, mem, jsonFile, frames, units,
              pruneList, trace>>

\* w.Render(application, output)
RenderCall(crd) ==
  /\ hist.pc = "idle"
  /\ hist' = [pc |-> "switch", crd |-> crd, before |-> out, renderer |-> Nil,
              removed |-> FALSE, invoked |-> <<>>, hooks |-> <<>>, err |-> Nil]
  /\ UNCHANGED out
  /\ RenderUnchanged

\* Render: the switch on the source
RenderSwitch ==
  /\ hist.pc = "switch"
  /\ hist' = IF Renderer(hist.crd) = ErrNotSupported
               THEN [hist EXCEPT !.pc = "returned", !.err = ErrNotSupported]
               ELSE [hist EXCEPT !.pc = "remove", !.renderer = Renderer(hist.crd)]
  /\ UNCHANGED out
  /\ RenderUnchanged

\* Render: os.RemoveAll(output)
RenderRemoveAll ==
  /\ hist.pc = "remove"
  /\ out' = Without(out, hist.crd.name)
  /\ hist' = [hist EXCEPT !.pc = "render", !.removed = TRUE]
  /\ RenderUnchanged

\* Render: the renderer, then the hook
RenderRun ==
  /\ hist.pc = "render"
  /\ LET n == hist.crd.name
         r == IF hist.renderer = "HelmTemplate" THEN Run(out, hist.crd, n)
                                                ELSE CopySource(out, hist.crd, n)
     IN /\ out' = r.out
        /\ hist' = [hist EXCEPT
                      !.pc = "returned",
                      !.invoked = Append(@, hist.renderer),
                      !.hooks = IF r.err = Nil /\ HookConfigured THEN Append(@, n) ELSE @,
                      !.err = RenderError(r.err, n)]
  /\ RenderUnchanged

\* Render returns to its caller
RenderReturn ==
  /\ hist.pc = "returned"
  /\ hist' = [hist EXCEPT !.pc = "idle"]
  /\ UNCHANGED out
  /\ RenderUnchanged

NextRender ==
  \/ \E crd \in RenderCrds : RenderCall(crd)
  \/ RenderSwitch
  \/ RenderRemoveAll
  \/ RenderRun
  \/ RenderReturn

SpecRender == InitRender /\ [][NextRender]_vars

-----------------------------------------------------------------------------
(* helm.generalHashFunction called directly on a path of a small file tree *)
(* with symbolic links.  hist holds the contents of the files, the entries *)
(* filepath.Walk has still to hand to its callback, the results the        *)
(* hashing goroutines have still to send, the map sha256Dir fills and what *)
(* generalHashFunction returned.                                           *)

HashContents == {"x", "y"}

\* The regular files, the directories and the symbolic links of the tree
RegularFiles == {"file", "locked", "dir/f1", "dir/f2", "dir/sub/f3", "one/f"}
\* A regular file os.ReadFile may not read
Unreadable == {"locked"}
Directories == {"dir", "dir/sub", "one"}
LinkTarget ==
  [l \in {"linkF", "linkD", "dir/ln", "broken"} |->
     CASE l = "linkF" -> "file"
       [] l = "linkD" -> "dir"
       [] l = "dir/ln" -> "f1"
       [] OTHER -> "gone"]

\* The paths generalHashFunction is called on
HashRoots == {"file", "locked", "linkF", "dir", "linkD", "one", "broken", "gone"}

\* The order of the paths as strings
PathOrder == <<"dir/f1", "dir/f2", "dir/ln", "dir/sub/f3", "file", "locked", "one/f">>

\* The entries filepath.Walk hands to its callback: the root, and what is
\* below it when os.Lstat says the root is a directory.  A symbolic link is
\* not followed.
WalkEntries(root) ==
  CASE root = "dir" -> {"dir", "dir/f1", "dir/f2", "dir/ln", "dir/sub", "dir/sub/f3"}
    [] root = "one" -> {"one", "one/f"}
    [] OTHER -> {root}

\* The contents of the files: three of them vary.
HashTrees ==
  {[f \in RegularFiles |->
      CASE f = "file" -> c[1] [] f = "dir/f1" -> c[2] [] f = "dir/f2" -> c[3]
        [] OTHER -> "x"] : c \in [1..3 -> HashContents]}

\* sha256.Sum256(data)
Sum256(data) == <<"sum", data>>

\* strings.ReplaceAll(filePath, info.Name(), fileName) for a link in the
\* working directory: the name of the link is the whole path.
ReplaceAll(filePath, name, fileName) == IF filePath = name THEN fileName ELSE filePath

\* helm.resolvesTo(filePath)
resolvesTo(filePath) ==
  IF filePath \notin RegularFiles \cup Directories \cup DOMAIN LinkTarget
    THEN [fileName |-> "", isDir |-> FALSE, err |-> "failed to lstat file"]
    ELSE IF filePath \in Directories
      THEN [fileName |-> filePath, isDir |-> TRUE, err |-> Nil]
      ELSE IF filePath \in DOMAIN LinkTarget
        THEN LET fileName == ReplaceAll(filePath, filePath, LinkTarget[filePath])
             IN IF fileName \notin RegularFiles \cup Directories \cup DOMAIN LinkTarget
                  THEN [fileName |-> fileName, isDir |-> FALSE,
                        err |-> "failed to lstat file"]
                  ELSE [fileName |-> fileName, isDir |-> fileName \in Directories,
                        err |-> Nil]
        ELSE [fileName |-> "", isDir |-> FALSE, err |-> Nil]

\* The result a hashing goroutine sends: os.ReadFile(path) and its sum
Result(fs, path) ==
  IF path \in RegularFiles \ Unreadable
    THEN [path |-> path, sum |-> Sum256(fs[path]), err |-> Nil]
    ELSE [path |-> path, sum |-> Sum256(""), err |-> "permission denied"]

\* The paths of the map in the order they were put in it.
PathsAsDelivered(paths) == paths

\* sort.Strings(paths)
SortStrings(paths) ==
  SelectSeq(PathOrder, LAMBDA p : \E i \in 1..Len(paths) : paths[i] = p)

\* generalHashFunction once sha256Dir has returned m; paths is the order in
\* which "range m" gave the keys.
generalHashFunction(m, paths) ==
  LET sorted == SortStrings(paths)
  IN IF Len(sorted) = 1
       THEN m[sorted[1]]
       ELSE <<"sha256", [i \in 1..Len(sorted) |-> <<m[sorted[i]], sorted[i]>>]>>

NoHash ==
  [pc |-> "idle", root |-> "file", todo |-> {}, pending |-> {}, m |-> EmptyMap,
   paths |-> <<>>, walkErr |-> Nil, digest |-> EmptyDigest, err |-> Nil]

InitHash ==
  /\ cfg \in [root : {"root"}, backend : {"sumfile"}, strategy : {HashStrategyReadWrite},
              maxDepth : {InfiniteDepth}, fault : {"none"}, ignoreSuffix : {"-ignore"},
              ignoreValueFile : {"overrides-to-ignore"}]
  /\ env \in {[files |-> fs, edited |-> {}, deleted |-> {}, at |-> 0] : fs \in HashTrees}
  /\ run = 0
  /\ wpc = "idle"
  /\ walkErr = Nil
  /\ visited = {}
  /\ mem = EmptyMap
  /\ jsonFile = NoJSON
  /\ out = EmptyMap
  /\ frames = EmptyMap
  /\ units = EmptyMap
  /\ pruneList = <<>>
  /\ trace = EmptyMap
  /\ hist = NoHash

HashUnchanged ==
  UNCHANGED <<cfg, env, run, wpc, walkErr, visited, mem, jsonFile, out, frames, units,
              pruneList, trace>>

\* generalHashFunction(root) up to the start of the walk in sumFiles
HashCall(root) ==
  /\ hist.pc \in {"idle", "done"}
  /\ hist' = [NoHash EXCEPT !.pc = "run", !.root = root, !.todo = WalkEntries(root)]
  /\ HashUnchanged

\* The callback of filepath.Walk for one entry.  The order of the entries is
\* left open.
WalkFn(path) ==
  /\ hist.pc = "run"
  /\ hist.walkErr = Nil
  /\ path \in hist.todo
  /\ IF path \notin RegularFiles \cup Directories \cup DOMAIN LinkTarget
       THEN hist' = [hist EXCEPT !.walkErr = "error walking the file path"]
       ELSE IF path \in RegularFiles
         THEN hist' = [hist EXCEPT !.todo = @ \ {path},
                                   !.pending = @ \cup {Result(env.files, path)}]
         ELSE LET r == resolvesTo(hist.root)
              IN IF r.err # Nil
                   THEN hist' = [hist EXCEPT !.walkErr = r.err]
                   ELSE IF r.isDir
                     THEN hist' = [hist EXCEPT !.todo = @ \ {path}]
                     ELSE hist' = [hist EXCEPT
                                     !.todo = @ \ {path},
                                     !.pending = @ \cup {Result(env.files, r.fileName)}]
  /\ HashUnchanged

\* sha256Dir receives one result from the channel.
Receive(path) ==
  /\ hist.pc = "run"
  /\ \E r \in hist.pending : r.path = path
  /\ LET r == CHOOSE x \in hist.pending : x.path = path IN
     hist' = IF r.err # Nil
               THEN [hist EXCEPT !.pc = "done", !.err = r.err, !.pending = @ \ {r}]
               ELSE [hist EXCEPT !.pending = @ \ {r},
                                 !.m = With(@, r.path, r.sum),
                                 !.paths = IF r.path \in DOMAIN hist.m
                                             THEN @ ELSE Append(@, r.path)]
  /\ HashUnchanged

\* The channel is closed: sha256Dir reads the error of the walk and
\* generalHashFunction returns.
HashReturn ==
  /\ hist.pc = "run"
  /\ hist.todo = {} \/ hist.walkErr # Nil
  /\ hist.pending = {}
  /\ hist' = IF hist.walkErr # Nil
               THEN [hist EXCEPT !.pc = "done", !.err = hist.walkErr]
               ELSE [hist EXCEPT !.pc = "done",
                                 !.digest = generalHashFunction(hist.m, hist.paths)]
  /\ HashUnchanged

NextHash ==
  \/ \E root \in HashRoots : HashCall(root)
  \/ \E path \in RegularFiles \cup Directories \cup DOMAIN LinkTarget \cup HashRoots :
       WalkFn(path)
  \/ \E path \in RegularFiles : Receive(path)
  \/ HashReturn

SpecHash == InitHash /\ [][NextHash]_vars

-----------------------------------------------------------------------------
(* Walker.Walk with the goroutines run one after the other, each to its    *)
(* end, in the order of the directory entries: the schedule in which no    *)
(* two goroutines overlap, as a function of the state at the start.        *)

St(o, m, v, failed) == [out |-> o, mem |-> m, visited |-> v, failed |-> failed]

RECURSIVE SeqWalk(_, _, _)
RECURSIVE SeqDocs(_, _, _, _)
RECURSIVE SeqFiles(_, _, _, _, _)

\* Walker.Render
SeqRender(o, crd) ==
  LET r == IF Renderer(crd) = "HelmTemplate" THEN Run(Without(o, crd.name), crd, crd.name)
                               ELSE CopySource(Without(o, crd.name), crd, crd.name)
  IN [out |-> r.out, err |-> RenderError(r.err, crd.name)]

\* The body of "for _, crd := range crds" for a document that passed the two
\* filters.
SeqNode(st, crd, depth) ==
  LET n == crd.name
      v == st.visited \cup {n}
      g == StoreGet(st.out, st.mem, n)
      h == GenerateHash(crd)
  IN IF g.err # Nil THEN St(st.out, st.mem, v, TRUE)
     ELSE IF h.err = ErrNotSupported THEN St(st.out, st.mem, v, FALSE)
     ELSE IF h.err # Nil THEN St(st.out, st.mem, v, TRUE)
     ELSE IF ~NeedsRender(g.hash, h.hash, EmptyManifest(st.out, n))
       THEN SeqWalk(St(st.out, st.mem, v, FALSE), n, depth + 1)
       ELSE LET r == SeqRender(st.out, crd)
                a == StoreAdd(r.out, st.mem, n, h.hash)
            IN IF r.err # Nil THEN St(r.out, st.mem, v, TRUE)
               ELSE IF a.err # Nil THEN St(a.out, a.mem, v, TRUE)
               ELSE SeqWalk(St(a.out, a.mem, v, FALSE), n, depth + 1)

\* One goroutine, from its i-th document on.
SeqDocs(st, crds, i, depth) ==
  IF i > Len(crds) THEN st
  ELSE IF crds[i].kind # "Application" \/ HasSuffix(crds[i].name, cfg.ignoreSuffix)
    THEN SeqDocs(st, crds, i + 1, depth)
    ELSE LET r == SeqNode(st, crds[i], depth)
         IN IF r.failed THEN r ELSE SeqDocs(r, crds, i + 1, depth)

\* The goroutines of the entries k, k+1, ... of a directory.
SeqFiles(st, input, fi, k, depth) ==
  IF k > Len(fi) THEN st
  ELSE IF ~IsYaml(fi[k]) THEN SeqFiles(st, input, fi, k + 1, depth)
  ELSE LET r == Read(st.out, input, fi[k])
           u == IF r.ok
                  THEN SeqDocs(St(st.out, st.mem, st.visited, FALSE), r.docs, 1, depth)
                  ELSE St(st.out, st.mem, st.visited, TRUE)
       IN SeqFiles(St(u.out, u.mem, u.visited, st.failed \/ u.failed),
                   input, fi, k + 1, depth)

\* Walker.walk
SeqWalk(st, input, depth) ==
  LET fr == NewFrame(st.out, input, depth)
  IN IF fr.pc = "ret"
       THEN St(st.out, st.mem, st.visited, fr.ret # Nil)
       ELSE SeqFiles(St(st.out, st.mem, st.visited, FALSE), input, fr.fi, 1, depth)

\* pruneUnvisited
SeqPrune(o, file, vis) ==
  LET removed == {e \in DOMAIN o : PruneRemoves(vis, e)}
  IN IF removed # {} /\ cfg.fault = "prune"
       THEN [out |-> o, ok |-> FALSE]
       ELSE [out |-> [e \in DOMAIN o \ removed |-> o[e]], ok |-> TRUE]

\* Walker.Walk from the output tree o and the hashes.json file: the output
\* tree, the hashes.json and whether Walk returns nil.
SeqRun(o, file) ==
  LET m == IF cfg.backend = "json" THEN NewJSONHashStore(file).hashes ELSE EmptyMap
      w == SeqWalk(St(o, m, {}, FALSE), cfg.root, 0)
      s == StoreSave(file, w.mem)
      p == SeqPrune(w.out, s.file, w.visited)
  IN IF w.failed THEN [out |-> w.out, file |-> file, ok |-> FALSE]
     ELSE IF s.err # Nil THEN [out |-> w.out, file |-> file, ok |-> FALSE]
     ELSE IF ~ShouldPrune(cfg.maxDepth) THEN [out |-> w.out, file |-> s.file, ok |-> TRUE]
     ELSE [out |-> p.out, file |-> s.file, ok |-> p.ok]

-----------------------------------------------------------------------------
(* Properties                                                              *)

HasEv(occ, ev) == \E k \in 1..Len(trace[occ]) : trace[occ][k].ev = ev
OccUnit(occ) == units[Front(occ)]
OccCrd(occ) == OccUnit(occ).crds[Last(occ)]
LastEv(occ) == trace[occ][Len(trace[occ])].ev

\* The document occ is the one its goroutine is working on.
Current(occ) == OccUnit(occ).i = Last(occ)

\* C1: for a node whose two digests and manifest check were obtained, Render
\* is invoked exactly when the digest read from the cache differs from the
\* computed one or manifest.yaml exists with size zero; and Render is invoked
\* for no node before that decision.
C1_RenderIffStale ==
  \A occ \in DOMAIN trace : \A k \in 1..Len(trace[occ]) :
    LET ev == trace[occ][k]
        required == ev.d # ev.p \/ ev.e = "empty"
    IN /\ ev.ev \in {"stale", "hit"} =>
            IF k < Len(trace[occ])
              THEN (trace[occ][k + 1].ev = "render") <=> required
              ELSE (Current(occ) /\ OccUnit(occ).pc = "render") <=> required
       /\ ev.ev = "render" => k > 1 /\ trace[occ][k - 1].ev \in {"stale", "hit"}

\* A node with a matching digest and an empty manifest was rendered, and a
\* node with a matching digest and a non-empty manifest was not.
C1_Witness ==
  /\ \E occ \in DOMAIN trace : \E k \in 1..Len(trace[occ]) :
       /\ trace[occ][k].ev = "stale"
       /\ trace[occ][k].d = trace[occ][k].p
       /\ trace[occ][k].e = "empty"
       /\ HasEv(occ, "rendered")
  /\ \E occ \in DOMAIN trace : \E k \in 1..Len(trace[occ]) :
       /\ trace[occ][k].ev = "hit"
       /\ trace[occ][k].e = "nonempty"
       /\ HasEv(occ, "returned")

SecondRun == run >= 2 /\ hist.prevOk /\ cfg.strategy = HashStrategyReadWrite

\* The decision event of a document.
Decision(occ) ==
  trace[occ][CHOOSE k \in 1..Len(trace[occ]) : trace[occ][k].ev \in {"stale", "hit"}]

\* C2 as stated: a Walk after a successful read-write Walk over the same
\* inputs renders no node, adds no record and leaves the output unchanged.
C2_AsStated ==
  SecondRun =>
    /\ \A occ \in DOMAIN trace : ~HasEv(occ, "render") /\ ~HasEv(occ, "add")
    /\ wpc = "done" => out = hist.outStart /\ jsonFile = hist.jsonStart

\* C2 amended: a Walk after a successful read-write Walk over the same inputs
\* renders, and adds a record for, only the nodes whose manifest.yaml is empty,
\* returns success and leaves every output file and the cache as they were.
C2_Idempotent ==
  SecondRun =>
    /\ \A occ \in DOMAIN trace :
         HasEv(occ, "render") \/ HasEv(occ, "add") => Decision(occ).e = "empty"
    /\ wpc = "done" =>
         walkErr = Nil /\ out = hist.outStart /\ jsonFile = hist.jsonStart

\* The second run is over; it had a cache hit and re-rendered a node with an
\* empty manifest.
C2_Witness ==
  /\ SecondRun
  /\ wpc = "done"
  /\ \E occ \in DOMAIN trace : HasEv(occ, "hit") /\ HasEv(occ, "returned")
  /\ \E occ \in DOMAIN trace : HasEv(occ, "add")

\* C3: when a Walk with maxDepth = -1 has returned success, no directory of
\* outputPath that was not marked visited is left, and every visited directory
\* that was there when the prune step began is there with the same contents.
C3_Prune ==
  (wpc = "done" /\ run >= 1 /\ walkErr = Nil /\ cfg.maxDepth = InfiniteDepth) =>
    /\ \A n \in DOMAIN out : n \in visited
    /\ \A n \in DOMAIN hist.pruneStart :
         IF n \in visited
           THEN n \in DOMAIN out /\ out[n] = hist.pruneStart[n]
           ELSE n \notin DOMAIN out

\* A successful unbounded run removed a directory and kept a visited one.
C3_Witness ==
  /\ wpc = "done" /\ run >= 1 /\ walkErr = Nil /\ cfg.maxDepth = InfiniteDepth
  /\ "s" \in hist.pruned
  /\ "s" \notin DOMAIN out
  /\ "a" \in visited /\ "a" \in DOMAIN out

Pruning == wpc \in {"prune", "pruneloop"}

\* C4: while the prune step runs every goroutine of every level has returned
\* and every walk invocation has returned, the path of every processed node is
\* in the visited set, and no directory of a processed node, at any depth, is
\* removed by the prune step.
C4_PruneAfterAll ==
  /\ Pruning =>
       /\ \A u \in DOMAIN units : units[u].pc = "done"
       /\ \A f \in DOMAIN frames : frames[f].pc = "ret"
  /\ \A occ \in DOMAIN trace :
       /\ OccCrd(occ).name \in visited
       /\ OccCrd(occ).name \notin hist.pruned

\* The prune step is removing directories after a walk that processed a node
\* found below the root level.
C4_Witness ==
  /\ wpc = "pruneloop"
  /\ hist.pruned # {}
  /\ \E occ \in DOMAIN trace :
       Len(occ) > 2 /\ HasEv(occ, "add") /\ OccCrd(occ).name \in DOMAIN out

\* The directory of n is as it was when the run began.
SameAsAtStart(n) ==
  /\ n \in DOMAIN out <=> n \in DOMAIN hist.outStart
  /\ n \in DOMAIN out => out[n] = hist.outStart[n]

\* C5: a Walk with maxDepth other than -1 never reaches the prune step, and
\* every directory whose path the walk did not visit is as it was before the
\* run, whatever the run's outcome.
C5_BoundedNeverPrunes ==
  (cfg.maxDepth # InfiniteDepth /\ run >= 1) =>
    /\ ~Pruning
    /\ hist.pruned = {}
    /\ \A n \in DirNames : n \notin visited => SameAsAtStart(n)

\* A bounded run is over with an error and the stale directory is in place.
C5_Witness ==
  /\ cfg.maxDepth # InfiniteDepth
  /\ wpc = "done"
  /\ walkErr # Nil
  /\ visited # {}
  /\ "s" \notin visited /\ "s" \in DOMAIN out

\* The events that may follow an event in the history of one document.
After(ev) ==
  CASE ev = "visit" -> {"get", "getfailed"}
    [] ev = "get" -> {"unsupported", "hashfailed", "stale", "hit"}
    [] ev = "stale" -> {"render", "unsupported"}
    [] ev = "hit" -> {"recurse"}
    [] ev = "render" -> {"rendered", "renderfailed"}
    [] ev = "rendered" -> {"hook", "hookfailed", "add", "addfailed"}
    [] ev = "hook" -> {"add", "addfailed"}
    [] ev = "add" -> {"recurse"}
    [] ev = "recurse" -> {"returned"}
    [] OTHER -> {}

\* C6: for every processed node the events come in this order: the path is put
\* in the visited set, then Get and the digest computation, then Render if
\* required, then Add (only after a successful Render, with the digest computed
\* before it), then the recursion (only after a successful Add); and a walk
\* invocation has returned only if every goroutine it started has returned.
C6_Order ==
  /\ \A occ \in DOMAIN trace :
       /\ trace[occ][1].ev = "visit"
       /\ OccCrd(occ).name \in visited
       /\ \A k \in 2..Len(trace[occ]) :
            /\ trace[occ][k].ev \in After(trace[occ][k - 1].ev)
            /\ trace[occ][k].ev = "add" => trace[occ][k].d = trace[occ][3].d
       /\ occ \in DOMAIN frames <=> HasEv(occ, "recurse")
  /\ \A f \in DOMAIN frames : \A u \in DOMAIN units :
       (frames[f].pc = "ret" /\ Front(u) = f) => units[u].pc = "done"

\* A node went through every step and its recursion has returned.
C6_Witness ==
  \E occ \in DOMAIN trace :
    /\ Len(trace[occ]) = 8
    /\ trace[occ][4].ev = "render"
    /\ trace[occ][6].ev = "add"
    /\ trace[occ][8].ev = "returned"
    /\ \E u \in DOMAIN units : Front(u) = occ /\ units[u].pc = "done"

\* The goroutine of occ's file has gone past occ without stopping at it.
Passed(occ) == OccUnit(occ).i > Last(occ)

\* Every document of a goroutine that ended without an error was looked at.
Processed(u) ==
  \A i \in 1..Len(units[u].crds) :
    LET crd == units[u].crds[i]
    IN (crd.kind = "Application" /\ ~HasSuffix(crd.name, cfg.ignoreSuffix)) =>
         /\ u \o <<i>> \in DOMAIN trace
         /\ crd.name \in visited

\* C7: a node whose source declares kustomize is passed without an error and
\* without a cache Add for its name; when nothing else fails the nodes after it
\* in its file and the nodes of the other files are processed and Walk returns
\* no error.
C7_UnsupportedSkip ==
  /\ \A occ \in DOMAIN trace :
       OccCrd(occ).src = "kustomize" =>
         /\ ~HasEv(occ, "add") /\ ~HasEv(occ, "render") /\ ~HasEv(occ, "hashfailed")
         /\ Len(trace[occ]) = 3 => LastEv(occ) = "unsupported" /\ Passed(occ)
  /\ (cfg.fault = "none" /\ wpc # "walk" /\ run >= 1) =>
       /\ frames[<<>>].ret = Nil
       /\ \A u \in DOMAIN units : Processed(u)
       /\ {"a", "k", "b", "c"} \subseteq visited
  /\ (cfg.fault = "none" /\ wpc = "done") => walkErr = Nil

\* The run is over without an error; the kustomize node was skipped and the
\* node after it in the same file was rendered.
C7_Witness ==
  /\ wpc = "done" /\ walkErr = Nil /\ run >= 1
  /\ <<1, 2>> \in DOMAIN trace /\ LastEv(<<1, 2>>) = "unsupported"
  /\ OccCrd(<<1, 2>>).src = "kustomize"
  /\ <<1, 3>> \in DOMAIN trace /\ HasEv(<<1, 3>>, "add")
  /\ <<2, 1>> \in DOMAIN trace /\ HasEv(<<2, 1>>, "returned")

\* C8 as stated: the walk recurses into the output directory of a node skipped
\* as unsupported.
C8_AsStated ==
  \A occ \in DOMAIN trace :
    (HasEv(occ, "unsupported") /\ Passed(occ)) => occ \in DOMAIN frames

\* C8 amended: the walk does not recurse into the output directory of a node
\* skipped as unsupported, and the Application nodes found only in its earlier
\* output are not marked visited.
C8_NoRecursionAfterSkip ==
  /\ \A occ \in DOMAIN trace : HasEv(occ, "unsupported") => occ \notin DOMAIN frames
  /\ \A f \in DOMAIN frames : frames[f].input # "k"
  /\ "e" \notin visited

\* The kustomize node with an earlier output that declares a node was skipped,
\* and the run is over.
C8_Witness ==
  /\ wpc = "done" /\ walkErr = Nil
  /\ <<1, 2>> \in DOMAIN trace /\ LastEv(<<1, 2>>) = "unsupported"
  /\ "k" \in DOMAIN out
  /\ Len(YamlDocs(out["k"]["manifest.yaml"]).docs) > 0
  /\ "k" \in visited

\* C9: a walk invocation that has returned started a goroutine for every
\* document file of its directory, all of them have returned, and it returned
\* an error if one of them sent one.
C9_ErrorsCollected ==
  \A f \in DOMAIN frames :
    frames[f].pc = "ret" =>
      /\ frames[f].errChan # <<>> => frames[f].ret # Nil
      /\ \A k \in 1..Len(frames[f].fi) :
           IsYaml(frames[f].fi[k]) =>
             /\ f \o <<k>> \in DOMAIN units
             /\ units[f \o <<k>>].pc = "done"

\* The root walk returned an error sent by the goroutine of one file, and
\* the goroutine of the other file rendered its node and ended without one.
C9_Witness ==
  /\ frames # EmptyMap
  /\ frames[<<>>].pc = "ret"
  /\ frames[<<>>].ret # Nil
  /\ Len(frames[<<>>].errChan) = 1
  /\ <<1, 1>> \in DOMAIN trace /\ LastEv(<<1, 1>>) = "renderfailed"
  /\ <<2, 1>> \in DOMAIN trace /\ HasEv(<<2, 1>>, "returned")
  /\ units[<<2>>].i > Len(units[<<2>>].crds)

\* The output of a successful render of occ is in place.
RenderedInPlace(occ) ==
  LET n == OccCrd(occ).name
  IN /\ n \in DOMAIN out
     /\ OccCrd(occ).src = "helm" =>
          /\ "manifest.yaml" \in DOMAIN out[n]
          /\ out[n]["manifest.yaml"] = Manifest(OccCrd(occ))

\* C10: Save is called only if the traversal returned no error, the prune
\* step runs only if the traversal and Save returned no error, a failing Walk
\* returns the error of the step that failed, and after a failing Walk what
\* was rendered in the run is in place.
C10_FailureOrder ==
  /\ hist.saveCalled => frames[<<>>].pc = "ret" /\ frames[<<>>].ret = Nil
  /\ (Pruning \/ hist.pruned # {}) => hist.saveCalled /\ hist.saveErr = Nil
  /\ (wpc = "done" /\ run >= 1) =>
       /\ frames[<<>>].ret # Nil => walkErr = frames[<<>>].ret /\ ~hist.saveCalled
       /\ hist.saveErr # Nil => walkErr = hist.saveErr
       /\ walkErr # Nil =>
            \A occ \in DOMAIN trace : HasEv(occ, "rendered") => RenderedInPlace(occ)

\* Save failed after a traversal that rendered nodes; Walk returned its error.
C10_Witness ==
  /\ wpc = "done"
  /\ hist.saveCalled /\ hist.saveErr # Nil
  /\ walkErr = hist.saveErr
  /\ \E occ \in DOMAIN trace : HasEv(occ, "rendered")

\* The digest Get returns for n in the stores given by o, m.
Stored(o, m, n) == StoreGet(o, m, n).hash

\* The record of n in hashes.json, or the empty digest.
Persisted(file, n) ==
  IF file.state = "file" /\ n \in DOMAIN Unmarshal(file).map
    THEN Unmarshal(file).map[n]
    ELSE EmptyDigest

\* C11: for a node whose digest read from the cache equals the computed one
\* and whose manifest.yaml is not an empty file, the run makes no Render call
\* (no removal, no write) and no Add, and the node's directory, the digest Get
\* returns for it and its record in hashes.json are as they were when the run
\* began.
C11_HitLeavesUntouched ==
  \A occ \in DOMAIN trace :
    ((HasEv(occ, "stale") \/ HasEv(occ, "hit"))
       /\ Decision(occ).d = Decision(occ).p /\ Decision(occ).e # "empty") =>
      LET n == OccCrd(occ).name
      IN /\ ~HasEv(occ, "render") /\ ~HasEv(occ, "add") /\ ~HasEv(occ, "addfailed")
         /\ SameAsAtStart(n)
         /\ Stored(out, mem, n) = Decision(occ).p
         /\ cfg.backend = "json" => Persisted(jsonFile, n) = Persisted(hist.jsonStart, n)

\* A run is over in which a node found below the root level was a cache hit
\* with a manifest in place while another node was rendered and added.
C11_Witness ==
  /\ wpc = "done" /\ walkErr = Nil
  /\ \E occ \in DOMAIN trace :
       /\ Len(occ) > 2
       /\ HasEv(occ, "hit") /\ Decision(occ).e = "nonempty"
       /\ HasEv(occ, "returned")
       /\ OccCrd(occ).name \in DOMAIN out
  /\ \E occ \in DOMAIN trace : HasEv(occ, "add")

\* The run that follows a change made by hand after a successful run.
AfterChange == run = env.at + 1 /\ hist.prevOk

Decided(occ) == HasEv(occ, "stale") \/ HasEv(occ, "hit")

\* C12 as stated: a node whose cached digest equals the computed one and whose
\* manifest.yaml was deleted is rendered by the next Walk.
C12_AsStated ==
  (AfterChange /\ wpc = "done") =>
    \A occ \in DOMAIN trace :
      (OccCrd(occ).name \in env.deleted /\ Decided(occ)
         /\ Decision(occ).d = Decision(occ).p) => HasEv(occ, "render")

\* C12 amended: a node whose cached digest equals the computed one is rendered
\* by the next Walk when its manifest.yaml is there with size zero; when the
\* manifest.yaml is missing the node is a cache hit, no Render is made for it
\* and the file stays missing.
C12_EmptyNotMissing ==
  \A occ \in DOMAIN trace :
    (Decided(occ) /\ Decision(occ).d = Decision(occ).p) =>
      /\ Decision(occ).e = "empty" =>
            /\ HasEv(occ, "stale")
            /\ Passed(occ) => HasEv(occ, "rendered")
      /\ Decision(occ).e = "missing" =>
            /\ HasEv(occ, "hit")
            /\ ~HasEv(occ, "render")
            /\ ManifestState(out, OccCrd(occ).name) = "missing"

\* The run after a manifest.yaml was deleted is over: the node it belonged to
\* was a cache hit, and a node with an empty manifest.yaml was rendered.
C12_Witness ==
  /\ AfterChange /\ wpc = "done" /\ walkErr = Nil
  /\ \E occ \in DOMAIN trace :
       /\ OccCrd(occ).name \in env.deleted
       /\ HasEv(occ, "hit") /\ Decision(occ).e = "missing"
       /\ HasEv(occ, "returned")
  /\ \E occ \in DOMAIN trace :
       /\ HasEv(occ, "stale") /\ Decision(occ).d = Decision(occ).p
       /\ Decision(occ).e = "empty"
       /\ HasEv(occ, "rendered")

\* The node lists the file f among its value files.
References(crd, f) ==
  \E i \in 1..Len(crd.valueFiles) : TrimDots(crd.valueFiles[i]) = f

\* The path of f has the ignore-value-file substring in it.
Ignored(f) == cfg.ignoreValueFile # "" /\ Contains(f, cfg.ignoreValueFile)

C14_Deterministic ==
  (wpc = "done" /\ run >= 1) =>
    LET e == SeqRun(hist.outStart, hist.jsonStart)
    IN /\ out = e.out
       /\ jsonFile = e.file
       /\ (walkErr = Nil) = e.ok

\* A Walk is over in which the goroutines of the two root files each rendered
\* and added a node and a node found below the root level was rendered.
C14_Witness ==
  /\ wpc = "done" /\ run >= 1
  /\ \E occ \in DOMAIN trace : occ[1] = 1 /\ HasEv(occ, "add")
  /\ \E occ \in DOMAIN trace : occ[1] = 2 /\ HasEv(occ, "add")
  /\ \E occ \in DOMAIN trace : Len(occ) > 2 /\ HasEv(occ, "rendered")

\* The goroutines that were started and have not returned.
InFlight == {u \in DOMAIN units : units[u].pc # "done"}
InFlightOf(f) == {u \in InFlight : Front(u) = f}

\* C15 as stated: the goroutines in flight, counted over all levels of the
\* recursion, are at most 10.
C15_AsStated == Cardinality(InFlight) <= SemaphoreSize

\* C15 amended: the goroutines in flight that one walk invocation started are
\* at most 10, and they are as many as the slots of its semaphore that are
\* taken; each invocation has a semaphore of its own.
C15_GatePerInvocation ==
  \A f \in DOMAIN frames :
    /\ Cardinality(InFlightOf(f)) <= SemaphoreSize
    /\ Cardinality(InFlightOf(f)) = frames[f].sem

\* The walk of a directory with more than 10 document files has 10
\* goroutines in flight and waits at the semaphore with its next file.
C15_Witness ==
  \E f \in DOMAIN frames :
    /\ frames[f].pc = "loop"
    /\ frames[f].next <= Len(frames[f].fi)
    /\ IsYaml(frames[f].fi[frames[f].next])
    /\ frames[f].sem = SemaphoreSize
    /\ Cardinality(InFlightOf(f)) = SemaphoreSize

\* C16 as stated: in read-only mode Get(name) after Add(name, d) returns the
\* digest it returned before the Add, and neither Add nor Save changes
\* hashes.json or a hash.sum.
C16_AsStated ==
  cfg.strategy = HashStrategyRead =>
    /\ hist.last.op = "add" =>
         /\ Stored(out, mem, hist.last.name) = hist.last.digest
         /\ ~hist.last.wrote
    /\ hist.last.op = "save" => ~hist.last.wrote

\* Every goroutine and every walk invocation of the run has returned.
AllFinished ==
  /\ run >= 1
  /\ \A u \in DOMAIN units : units[u].pc = "done"
  /\ \A f \in DOMAIN frames : frames[f].pc = "ret"

\* The names Add was called with in this run.
Added == {OccCrd(occ).name : occ \in {x \in DOMAIN trace : HasEv(x, "add")}}

\* C17: with the JSON store, once every goroutine has returned, Get returns
\* for every name added in the run the digest it was added with, whatever the
\* order of the calls; the map holds the records it was loaded with and one
\* record for each added name, no other, and the records of the names not
\* added are as loaded.
C17_NoLostUpdate ==
  (cfg.backend = "json" /\ AllFinished) =>
    LET loaded == NewJSONHashStore(hist.jsonStart).hashes
    IN /\ \A occ \in DOMAIN trace : \A k \in 1..Len(trace[occ]) :
            trace[occ][k].ev = "add" =>
              StoreGet(out, mem, OccCrd(occ).name) = [hash |-> trace[occ][k].d, err |-> Nil]
       /\ DOMAIN mem = DOMAIN loaded \cup Added
       /\ \A n \in DOMAIN loaded \ Added : mem[n] = loaded[n]

\* The goroutines of the two root files and one below the root level have
\* added records to the JSON store, and all have returned.
C17_Witness ==
  /\ cfg.backend = "json" /\ AllFinished
  /\ \E occ \in DOMAIN trace : occ[1] = 1 /\ Len(occ) = 2 /\ HasEv(occ, "add")
  /\ \E occ \in DOMAIN trace : occ[1] = 2 /\ Len(occ) = 2 /\ HasEv(occ, "add")
  /\ \E occ \in DOMAIN trace : Len(occ) > 2 /\ HasEv(occ, "add")
  /\ Cardinality(Added) >= 4

\* The store had no record of n when the run began.
NoRecord(n) ==
  IF cfg.backend = "json"
    THEN n \notin DOMAIN NewJSONHashStore(hist.jsonStart).hashes
    ELSE ~(n \in DOMAIN hist.outStart /\ "hash.sum" \in DOMAIN hist.outStart[n])

\* C18: for a node without a record (JSON: no key in the map; sum file: no
\* hash.sum) Get returns without an error, the digest it returns is the empty
\* one, and the node is taken as stale.
C18_MissingRecordIsStale ==
  \A occ \in DOMAIN trace :
    NoRecord(OccCrd(occ).name) =>
      /\ Len(trace[occ]) >= 2 => trace[occ][2].ev = "get"
      /\ Decided(occ) => Decision(occ).p = EmptyDigest /\ HasEv(occ, "stale")

\* A first run is over without an error in which a node without a record was
\* taken as stale, rendered and added.
C18_Witness ==
  /\ run = 1 /\ wpc = "done" /\ walkErr = Nil
  /\ \E occ \in DOMAIN trace :
       /\ NoRecord(OccCrd(occ).name)
       /\ HasEv(occ, "stale") /\ Decision(occ).p = EmptyDigest
       /\ HasEv(occ, "add")

\* A JSON store has just been opened.
Reopened == cfg.backend = "json" /\ hist.opened /\ hist.last.op = "open"

\* C19 as stated: a JSON store opened, in either mode, on the file written by
\* Save returns from Get, for every name, the last digest added before the Save.
C19_AsStated ==
  Reopened => \A n \in DOMAIN hist.saved : Stored(out, mem, n) = hist.saved[n]

\* C19 amended: the same for every name other than the key "//", for which
\* Get returns the text NewJSONHashStore puts under that key.
C19_RoundTrip ==
  Reopened =>
    /\ \A n \in DOMAIN hist.saved \ {SentinelKey} : Stored(out, mem, n) = hist.saved[n]
    /\ Stored(out, mem, SentinelKey) = SentinelValue

\* A store opened in read mode on a file written by a Save that followed an
\* Add of a digest the file did not hold before.
C19_Witness ==
  /\ Reopened
  /\ cfg.strategy = HashStrategyRead
  /\ "a" \in DOMAIN hist.saved /\ hist.saved["a"] = D1
  /\ Persisted(jsonFile, "a") = D1
  /\ Stored(out, mem, "a") = D1

\* C20: NewJSONHashStore returns an error exactly when reading the file fails
\* for another reason than the file not existing; on a missing file and on
\* a file whose bytes are not well-formed JSON, the empty file among them, it
\* returns a store whose map holds the key "//" only; and Save of a
\* read-write store leaves a well-formed file.
C20_OpenOnInvalidFile ==
  cfg.backend = "json" =>
    /\ hist.last.op = "open" =>
         /\ (hist.last.err # Nil) <=> (jsonFile.state = "unreadable")
         /\ hist.opened <=> (hist.last.err = Nil)
         /\ (jsonFile.state = "absent" \/ (jsonFile.state = "file" /\ ~jsonFile.valid)) =>
              DOMAIN mem = {SentinelKey}
    /\ (hist.last.op = "save" /\ cfg.strategy = HashStrategyReadWrite
          /\ hist.last.err = Nil) =>
         jsonFile.state = "file" /\ jsonFile.valid

\* A store was opened without an error on a file that is cut off after the
\* record of a, and holds no record of a.
C20_Witness ==
  /\ cfg.backend = "json"
  /\ hist.last.op = "open" /\ hist.opened
  /\ jsonFile = JSONFile("file", FALSE, << <<"a", D1>> >>)
  /\ Stored(out, mem, "a") = EmptyDigest

-----------------------------------------------------------------------------
\* C21: when the renderer fails with the missing-dependency pattern, template
\* installs the dependencies once and runs the renderer exactly once more,
\* returning an error if that second run fails; the renderer never runs more
\* than twice for one call of template.
C21_AsStated ==
  /\ Len(hist.runs) <= 2
  /\ (/\ hist.pc = "returned"
      /\ Len(hist.runs) >= 1
      /\ hist.runs[1].code # 0
      /\ IsMissingDependencyErr(hist.runs[1].stderr))
       => /\ hist.installs = 1
          /\ Len(hist.runs) = 2
          /\ (hist.runs[2].code # 0 => hist.result.err # Nil)

-----------------------------------------------------------------------------
\* The hook calls made for occ
HookCalls(occ) ==
  {k \in 1..Len(trace[occ]) : trace[occ][k].ev \in {"hook", "hookfailed"}}

\* C22: the post-render hook is called exactly once for each primary render
\* that succeeded, with the output path of the node, and never for a cache hit
\* or after a render that failed; when the hook fails Render returns an error
\* wrapping it, no record is added for the node, the rendered output stays on
\* disk and the walk does not recurse into the node.
C22_HookOncePerRender ==
  \A occ \in DOMAIN trace :
    LET t == trace[occ]
        n == OccCrd(occ).name
    IN /\ \A k \in HookCalls(occ) :
            /\ HookConfigured
            /\ k > 1 /\ t[k - 1].ev = "rendered"
            /\ t[k].e = n
       /\ Cardinality(HookCalls(occ)) <= 1
       /\ (HookConfigured /\ HasEv(occ, "rendered")) => Cardinality(HookCalls(occ)) = 1
       /\ HasEv(occ, "hookfailed") =>
            /\ LastEv(occ) = "hookfailed"
            /\ OccUnit(occ).pc = "done"
            /\ occ \notin DOMAIN frames
            /\ Stored(out, mem, n) # Decision(occ).d
            /\ RenderedInPlace(occ)
            /\ frames[<<>>].pc = "ret" => frames[<<>>].ret = "post render failed"
            /\ wpc = "done" => walkErr = "post render failed"

\* A run is over in which the hook failed for one node after its render and
\* ran for another node that was then added, and a second run in which a node
\* was a cache hit and the hook failed again.
C22_Witness ==
  /\ wpc = "done" /\ run = 2
  /\ walkErr = "post render failed"
  /\ \E occ \in DOMAIN trace : HasEv(occ, "hookfailed") /\ RenderedInPlace(occ)
  /\ \E occ \in DOMAIN trace : HasEv(occ, "hit") /\ HookCalls(occ) = {}

-----------------------------------------------------------------------------
\* The call of Render in hist has got past the switch.
Dispatched == hist.pc \in {"remove", "render", "returned"}

\* C23: Render chooses by the source, in this order: with a Helm block the
\* template renderer; otherwise with a Kustomize block the not-supported error
\* and no renderer; otherwise the raw copy renderer; and exactly one of the
\* three applies to a call.
C23_Dispatch ==
  Dispatched =>
    LET crd == hist.crd
        helm == hist.renderer = "HelmTemplate" /\ hist.err # ErrNotSupported
        unsupported == hist.renderer = Nil /\ hist.err = ErrNotSupported
                         /\ hist.invoked = <<>> /\ ~hist.removed
        copy == hist.renderer = "CopySource" /\ hist.err # ErrNotSupported
    IN /\ crd.src \in {"helm", "helm+kustomize"} => helm
       /\ crd.src = "kustomize" => unsupported
       /\ crd.src = "raw" => copy
       /\ (IF helm THEN 1 ELSE 0) + (IF unsupported THEN 1 ELSE 0)
            + (IF copy THEN 1 ELSE 0) = 1
       /\ hist.pc = "returned" /\ ~unsupported => hist.invoked = <<hist.renderer>>
       /\ (hist.pc = "returned" /\ hist.err = Nil) =>
            (helm <=> "manifest.yaml" \in DOMAIN out[crd.name])

\* Render has returned without an error for a source with both blocks and the
\* manifest of the template renderer is in the output path.
C23_Witness ==
  /\ hist.pc = "returned"
  /\ hist.crd.src = "helm+kustomize"
  /\ hist.invoked = <<"HelmTemplate">>
  /\ hist.err = Nil
  /\ out[hist.crd.name]["manifest.yaml"] = Manifest(hist.crd)

-----------------------------------------------------------------------------
\* The (path, content) pairs of the regular files at or below a path
PairsUnder(root) ==
  {<<f, env.files[f]>> : f \in WalkEntries(root) \cap RegularFiles}

\* The digest as a function of a set of (path, content) pairs
DigestOfPairs(pairs) ==
  LET sorted == SelectSeq(PathOrder, LAMBDA p : \E x \in pairs : x[1] = p)
      sum(p) == Sum256((CHOOSE x \in pairs : x[1] = p)[2])
  IN IF Len(sorted) = 1
       THEN sum(sorted[1])
       ELSE <<"sha256", [i \in 1..Len(sorted) |-> <<sum(sorted[i]), sorted[i]>>]>>

HashDone == hist.pc = "done"

\* C24: hashing a path that is a symbolic link gives the digest of hashing the
\* target of the link, for a link to a file and for a link to a directory.
C24_AsStated ==
  (HashDone /\ hist.root \in {"linkF", "linkD"}) =>
    /\ hist.err = Nil
    /\ hist.digest = DigestOfPairs(PairsUnder(LinkTarget[hist.root]))

\* C25: the digest of a directory depends only on the set of (path, content)
\* pairs under it: it is the same for every order in which the walk hands the
\* files to its callback and for every order in which the hashing goroutines
\* deliver their results.
C25_OrderIndependent ==
  (HashDone /\ hist.root \in Directories) =>
    /\ hist.err = Nil
    /\ hist.digest = DigestOfPairs(PairsUnder(hist.root))

\* The digest of a directory of three files was computed from results that
\* arrived in the reverse of the order of their paths.
C25_Witness ==
  /\ HashDone
  /\ hist.root = "dir"
  /\ hist.paths = <<"dir/sub/f3", "dir/f2", "dir/f1">>
  /\ hist.digest # EmptyDigest

\* C26: when the digest computation of a node fails with an error other than
\* the not-supported one, the node is not rendered, no record is added for it,
\* the walk does not recurse into it, and Walk returns an error.
C26_HashFailure ==
  \A occ \in DOMAIN trace :
    HasEv(occ, "hashfailed") =>
      LET n == OccCrd(occ).name
      IN /\ LastEv(occ) = "hashfailed"
         /\ ~HasEv(occ, "render") /\ ~HasEv(occ, "add") /\ ~HasEv(occ, "recurse")
         /\ OccUnit(occ).pc = "done"
         /\ occ \notin DOMAIN frames
         /\ SameAsAtStart(n)
         /\ Stored(out, mem, n) = OccUnit(occ).hash
         /\ frames[Front(Front(occ))].pc = "ret" => frames[Front(Front(occ))].ret # Nil
         /\ wpc \notin {"save", "pruneloop"}
         /\ wpc = "done" => walkErr = "hash failed"

\* A run is over with the error of a digest computation while another node of
\* the same file was rendered and added.
C26_Witness ==
  /\ wpc = "done"
  /\ walkErr = "hash failed"
  /\ \E occ \in DOMAIN trace : HasEv(occ, "hashfailed")
  /\ \E occ \in DOMAIN trace : HasEv(occ, "rendered") /\ HasEv(occ, "add")

\* C27: for a finite input tree in which no output declares a node of its own
\* ancestor path, Walk terminates under every interleaving: the error channel
\* of an invocation never holds more errors than it has room for, and a Walk
\* that has started returns.
C27_Terminates ==
  /\ [](\A f \in DOMAIN frames : Len(frames[f].errChan) <= Len(frames[f].fi))
  /\ ((wpc = "walk") ~> (wpc = "done"))

\* A Walk over the chain of ten nested nodes has returned, and so has a Walk
\* over the directory of eleven files after eleven errors were sent.
C27_Witness ==
  /\ wpc = "done" /\ run = 2
  /\ \/ /\ cfg.root = "deep"
        /\ \E f \in DOMAIN frames : Len(f) = 2 * Len(ChainNames)
     \/ /\ cfg.root = "wide"
        /\ Len(frames[<<>>].errChan) = Len(WideEntries)
        /\ walkErr # Nil

\* The digest the persisted cache holds for n: its member of hashes.json, or
\* what its hash.sum says.
PersistedIn(o, file, n) ==
  IF cfg.backend = "json"
    THEN Persisted(file, n)
    ELSE IF n \in DOMAIN o /\ "hash.sum" \in DOMAIN o[n]
      THEN SumFileHash(o[n]["hash.sum"]).hash
      ELSE EmptyDigest

\* The directory of n holds the output of a render for the digest d: the one
\* it held with that digest when the run began, or the one of a node of this
\* run whose computed digest is d.
HoldsRenderFor(n, d) ==
  /\ n \in DOMAIN out
  /\ \/ /\ n \in DOMAIN hist.outStart
        /\ out[n] = hist.outStart[n]
        /\ PersistedIn(hist.outStart, hist.jsonStart, n) = d
     \/ \E occ \in DOMAIN trace :
          /\ OccCrd(occ).name = n
          /\ \E k \in 1..Len(trace[occ]) :
               trace[occ][k].ev \in {"stale", "hit"} /\ trace[occ][k].d = d
          /\ RenderedInPlace(occ)

\* C28: in read-write mode, for both backends and after any Walk, if the
\* persisted cache holds the digest d for a node then the output directory of
\* the node holds the complete output of a successful render for d.
C28_AsStated ==
  (cfg.strategy = HashStrategyReadWrite /\ wpc = "done" /\ run >= 1) =>
    \A n \in DirNames :
      LET d == PersistedIn(out, jsonFile, n)
      IN d # EmptyDigest => HoldsRenderFor(n, d)

\* The goroutines a walk invocation has started
StartedBy(f) == {u \in DOMAIN units : Front(u) = f}

\* C29: for each visit of a directory at most 10 of the goroutines started for
\* its files are in flight; a goroutine holds its slot from before it starts
\* until it returns, the recursion into its nodes included, and every slot
\* taken is released exactly once, also when the goroutine returns early with
\* an error.
C29_SlotPerUnit ==
  \A f \in DOMAIN frames :
    LET fr == frames[f]
        admitted == {k \in 1..(fr.next - 1) : IsYaml(fr.fi[k])}
    IN /\ fr.sem \in 0..SemaphoreSize
       /\ StartedBy(f) = {f \o <<k>> : k \in admitted}
       /\ fr.sem = Cardinality(admitted)
                     - Cardinality({u \in StartedBy(f) : units[u].pc = "done"})
       /\ \A u \in StartedBy(f) :
            (units[u].pc = "waitwalk" /\ frames[Occ(u)].pc # "ret") => fr.sem >= 1
       /\ fr.pc = "ret" => fr.sem = 0 /\ Len(fr.errChan) <= Cardinality(admitted)

\* In the directory of eleven files one goroutine has returned with an error
\* and the eleventh file took the slot it released: 10 are in flight.
C29_Witness ==
  /\ cfg.root = "wide"
  /\ frames # EmptyMap
  /\ frames[<<>>].next > Len(frames[<<>>].fi)
  /\ frames[<<>>].sem = SemaphoreSize
  /\ Len(frames[<<>>].errChan) = 1
  /\ Cardinality(InFlightOf(<<>>)) = SemaphoreSize

\* The occurrences of the nodes found in the output directory of occ
ChildrenOf(occ) ==
  {c \in DOMAIN trace : Len(c) = Len(occ) + 2 /\ SubSeq(c, 1, Len(occ)) = occ}

\* The nodes the documents in the output directory of n declare
DeclaredIn(n) ==
  IF n \notin DOMAIN out THEN {}
  ELSE {crd \in UNION {{YamlDocs(out[n][x]).docs[i] :
                          i \in 1..Len(YamlDocs(out[n][x]).docs)} :
                        x \in {y \in DOMAIN out[n] : IsYaml(y)}} :
          crd.kind = "Application" /\ ~HasSuffix(crd.name, cfg.ignoreSuffix)}

\* C30: the walk recurses into the output directory of a node after a cache
\* hit as it does after a render, so a stale node below an up-to-date parent
\* is found and rendered in the same run.
C30_RecurseAfterHit ==
  \A occ \in DOMAIN trace :
    ((HasEv(occ, "hit") \/ HasEv(occ, "add")) /\ Passed(occ)) =>
      /\ HasEv(occ, "recurse")
      /\ occ \in DOMAIN frames
      /\ frames[occ].input = OccCrd(occ).name
      /\ frames[occ].depth = frames[Front(Front(occ))].depth + 1
      /\ \A crd \in DeclaredIn(OccCrd(occ).name) :
           \E c \in ChildrenOf(occ) :
             /\ OccCrd(c) = crd
             /\ (HasEv(c, "stale") /\ Passed(c)) => HasEv(c, "rendered")
             /\ Decided(c)

\* The run after the edit of a value file of a nested node is over: its
\* parent was a cache hit, and the node was found with a digest different from
\* the cached one and was rendered and added.
C30_Witness ==
  /\ AfterChange /\ wpc = "done" /\ walkErr = Nil
  /\ env.edited = {<<"overrides", "d.yaml">>}
  /\ <<1, 1>> \in DOMAIN trace /\ OccCrd(<<1, 1>>).name = "a"
  /\ HasEv(<<1, 1>>, "hit")
  /\ \E c \in ChildrenOf(<<1, 1>>) :
       /\ OccCrd(c).name = "d"
       /\ HasEv(c, "stale") /\ HasEv(c, "rendered") /\ HasEv(c, "add")
       /\ Decision(c).d # Decision(c).p
       /\ Decision(c).p # EmptyDigest

\* The depth of the directory in which the node of occ was found
DepthOf(occ) == frames[Front(Front(occ))].depth

\* C31: with maxDepth = d >= 0 the root directory has depth 0 and the nodes
\* found in the directories of depth 0..d are processed; a directory of depth
\* d + 1 is not read and no node beyond depth d is rendered, recorded or marked
\* visited.  With maxDepth = -1 there is no limit.
C31_DepthLimit ==
  /\ \A f \in DOMAIN frames :
       /\ frames[f].depth = Len(f) \div 2
       /\ IF cfg.maxDepth # InfiniteDepth /\ frames[f].depth > cfg.maxDepth
            THEN /\ frames[f].pc = "ret" /\ frames[f].ret = Nil
                 /\ frames[f].fi = <<>>
                 /\ StartedBy(f) = {}
            ELSE \/ frames[f].ret = "readdir failed"
                 \/ frames[f].input \notin InputDirs /\ frames[f].input \notin DOMAIN out
                 \/ frames[f].fi = ReadDir(out, frames[f].input)
       /\ (frames[f].pc = "ret" /\ frames[f].ret = Nil) =>
            \A u \in StartedBy(f) : Processed(u)
  /\ \A occ \in DOMAIN trace :
       cfg.maxDepth # InfiniteDepth => DepthOf(occ) <= cfg.maxDepth
  /\ run >= 1 => visited = {OccCrd(occ).name : occ \in DOMAIN trace}

\* A run with maxDepth = 0 is over without an error: the node a of the root
\* directory was rendered, the walk of its output directory returned without
\* reading it, and the node d declared there was not marked visited.
C31_Witness ==
  /\ cfg.maxDepth = 0
  /\ wpc = "done" /\ walkErr = Nil
  /\ HasEv(<<1, 1>>, "rendered")
  /\ <<1, 1>> \in DOMAIN frames
  /\ frames[<<1, 1>>].depth = 1 /\ frames[<<1, 1>>].fi = <<>>
  /\ "a" \in visited /\ "d" \notin visited


\* The name ends with the configured ignore suffix, read off the name itself.
EndsWithIgnoreSuffix(n) ==
  \/ cfg.ignoreSuffix = ""
  \/ Len(NameTokens(n)) > 1 /\ Last(NameTokens(n)) = cfg.ignoreSuffix

\* C32: a parsed document is processed as a node exactly when its kind is
\* "Application" and its name does not end with the ignore suffix; any other
\* document leaves no step behind (no visit, digest, render or recursion), is
\* not marked visited and ends no unit with an error, and after a successful
\* unbounded run the output directory of an ignored node is gone.
C32_Filter ==
  /\ \A u \in DOMAIN units : \A i \in 1..Len(units[u].crds) :
       LET crd == units[u].crds[i]
           node == crd.kind = "Application" /\ ~EndsWithIgnoreSuffix(crd.name)
       IN /\ (u \o <<i>> \in DOMAIN trace) => node
          /\ (i < units[u].i /\ node) => u \o <<i>> \in DOMAIN trace
          /\ (~node /\ u \o <<i>> \notin DOMAIN trace) =>
               /\ u \o <<i>> \notin DOMAIN frames
               /\ (\A occ \in DOMAIN trace : OccCrd(occ).name # crd.name) =>
                    crd.name \notin visited
               /\ (wpc = "done" /\ walkErr = Nil /\ cfg.maxDepth = InfiniteDepth) =>
                    crd.name \notin DOMAIN out
  /\ (cfg.ignoreSuffix = "" /\ run >= 1) =>
       /\ trace = EmptyMap /\ visited = {} /\ walkErr = Nil
       /\ \A f \in DOMAIN frames : frames[f].ret = Nil

\* A successful unbounded run passed the ignored node c-ignore, processed the
\* node c declared before it in the same file and removed the directory
\* c-ignore that an earlier run had left.
C32_Witness ==
  /\ wpc = "done" /\ walkErr = Nil /\ cfg.maxDepth = InfiniteDepth
  /\ cfg.ignoreSuffix = "-ignore"
  /\ "c" \in visited /\ "c-ignore" \notin visited
  /\ "c-ignore" \in hist.pruned /\ "c-ignore" \notin DOMAIN out
  /\ \E occ \in DOMAIN trace : OccCrd(occ).name = "c" /\ HasEv(occ, "add")

\* C40: with the empty ignore suffix no node is ignored by name: once a
\* successful run is over, every document of kind Application that was read
\* has been processed and marked visited, and under unbounded depth a
\* directory of its name that was there before the prune step is still there.
C40_AsStated ==
  (cfg.ignoreSuffix = "" /\ wpc = "done" /\ run >= 1 /\ walkErr = Nil) =>
    \A u \in DOMAIN units : \A i \in 1..Len(units[u].crds) :
      LET crd == units[u].crds[i]
      IN crd.kind = "Application" =>
           /\ u \o <<i>> \in DOMAIN trace
           /\ crd.name \in visited
           /\ (cfg.maxDepth = InfiniteDepth /\ crd.name \in DOMAIN hist.pruneStart) =>
                crd.name \in DOMAIN out

\* Over "loop" with unbounded depth every invocation of walk below the first
\* reads the output directory of x and finds the document x in it, and no
\* invocation and no goroutine has returned: at every depth the walk is where
\* it was one level above, about to recurse again.
LoopNeverReturns ==
  (cfg.root = "loop" /\ cfg.maxDepth = InfiniteDepth /\ run >= 1) =>
    /\ wpc = "walk"
    /\ \A f \in DOMAIN frames :
         /\ frames[f].pc # "ret"
         /\ frames[f].depth >= 1 =>
              frames[f].input = "x" /\ Len(SelectSeq(frames[f].fi, IsYaml)) = 1
    /\ \A u \in DOMAIN units :
         /\ units[u].pc # "done"
         /\ units[u].pc \notin {"read", "next"} => Crd(u).name = "x"

SuccessfulRuns(bytes) ==
  {k \in 1..Len(hist.runs) : hist.runs[k].code = 0 /\ hist.runs[k].stdout = bytes}

\* C34: template returns a nil error only with the stdout of a run of the
\* renderer that exited successfully, and the manifest helm.Run has written
\* is the stdout of such a run.
C34_AsStated ==
  /\ (hist.pc = "returned" /\ hist.result.err = Nil) =>
       SuccessfulRuns(hist.result.bytes) # {}
  /\ (hist.pc = "idle" /\ hist.runs # <<>> /\ hist.err = Nil) =>
       /\ hist.crd.name \in DOMAIN out
       /\ SuccessfulRuns(out[hist.crd.name]["manifest.yaml"]) # {}

\* C35: after a Walk that returned no error in read-write mode, for every
\* node whose digest was computed in the run Get(name) returns that digest
\* without an error, and so does a store opened afterwards on what was
\* persisted, with either backend.
C35_RecordIsDigest ==
  (wpc = "done" /\ run >= 1 /\ walkErr = Nil /\ cfg.strategy = HashStrategyReadWrite) =>
    \A occ \in DOMAIN trace :
      Decided(occ) =>
        /\ OccUnit(occ).hashGenerated # EmptyDigest
        /\ StoreGet(out, mem, OccCrd(occ).name) =
             [hash |-> Decision(occ).d, err |-> Nil]
        /\ PersistedIn(out, jsonFile, OccCrd(occ).name) = Decision(occ).d

\* A second successful read-write Walk is over in which the node a was a
\* cache hit and the node b, whose manifest is empty, was rendered and
\* recorded again.
C35_Witness ==
  /\ wpc = "done" /\ run = 2 /\ walkErr = Nil /\ cfg.strategy = HashStrategyReadWrite
  /\ cfg.maxDepth = InfiniteDepth
  /\ \E occ \in DOMAIN trace : OccCrd(occ).name = "a" /\ HasEv(occ, "hit")
  /\ \E occ \in DOMAIN trace : OccCrd(occ).name = "b" /\ HasEv(occ, "add")
  /\ Stored(out, mem, "b") = Digest(App("b", "helm"))

\* The documents named n for which Render went as far as os.RemoveAll.
RenderedFor(n) == {occ \in DOMAIN trace : OccCrd(occ).name = n /\ HasEv(occ, "render")}

\* C36: Render removes the whole output path of the node before it invokes
\* the renderer (between the two the path does not exist), and a renderer is
\* invoked only after that removal; a path is removed or written during the
\* traversal only by a Render that selected a renderer; for a node found
\* not supported nothing under its output path is removed or written, by the
\* traversal or by the prune step, and its path is in the visited set.
C36_RemoveOnlyToRender ==
  /\ \A occ \in DOMAIN trace :
       LET n == OccCrd(occ).name
           t == trace[occ]
       IN /\ LastEv(occ) = "render" => n \notin DOMAIN out
          /\ \A k \in 1..Len(t) :
               t[k].ev \in {"rendered", "renderfailed"} => k > 1 /\ t[k - 1].ev = "render"
          /\ HasEv(occ, "render") => Renderer(OccCrd(occ)) # ErrNotSupported
          /\ HasEv(occ, "unsupported") =>
               /\ RenderedFor(n) = {}
               /\ n \in visited
               /\ run >= 1 => SameAsAtStart(n)
  /\ (run >= 1 /\ wpc = "walk") =>
       \A n \in DirNames : RenderedFor(n) = {} => SameAsAtStart(n)

\* The run is over: the output path of b, which held an empty manifest, was
\* removed and rendered again, and the directory of the kustomize node k is
\* what it was, with k visited.
C36_Witness ==
  /\ wpc = "done" /\ run = 2 /\ walkErr = Nil /\ cfg.maxDepth = InfiniteDepth
  /\ "b" \in DOMAIN hist.outStart
  /\ RenderedFor("b") # {}
  /\ \E occ \in DOMAIN trace :
       OccCrd(occ).name = "k" /\ HasEv(occ, "unsupported")
  /\ "k" \in visited /\ "k" \in DOMAIN out /\ out["k"] = hist.outStart["k"]

\* No two documents processed in the run carry the same name.
UniqueNames ==
  \A o1, o2 \in DOMAIN trace : OccCrd(o1).name = OccCrd(o2).name => o1 = o2

\* The goroutines whose next step reads the cache file of n, checks its
\* manifest, clears or renders its output path, writes its cache file or
\* reads its output directory to recurse into it.
Workers(n) ==
  {u \in DOMAIN units :
     /\ units[u].pc \in {"get", "hash", "render", "render2", "add", "recurse"}
     /\ Crd(u).name = n}

\* The goroutines whose next step reads a file of the output directory of n.
Readers(n) ==
  {u \in DOMAIN units : units[u].pc = "read" /\ frames[Front(u)].input = n}

\* C37: when the names of the nodes of the run are unique, at most one
\* goroutine at a time is at a step that reads, clears or writes the output
\* directory of a name, and it is the one that processes the node of that
\* name; the files of that directory are read only inside the recursive call
\* that goroutine made, while it waits in the call.
C37_OneUnitPerDirectory ==
  UniqueNames =>
    \A n \in DirNames :
      /\ Cardinality(Workers(n)) <= 1
      /\ Readers(n) # {} => Workers(n) = {}
      /\ \A u \in Readers(n) :
           LET occ == Front(u)
           IN /\ occ \in DOMAIN trace
              /\ OccCrd(occ).name = n
              /\ Current(occ)
              /\ OccUnit(occ).pc = "waitwalk"

\* Two goroutines are at work at the same time: one is about to read the
\* manifest in the output directory of a inside the recursion of the
\* goroutine that rendered a, the other is about to render c.
C37_Witness ==
  /\ UniqueNames
  /\ Readers("a") # {}
  /\ \E v \in Workers("c") : units[v].pc = "render2"
  /\ \E occ \in DOMAIN trace : OccCrd(occ).name = "a" /\ HasEv(occ, "rendered")

\* The value files of the payload that are missing and declared ignorable,
\* or that match the ignore pattern.
LeftOut(crd) ==
  {i \in 1..Len(crd.valueFiles) :
     \/ crd.ignoreMissingValueFiles /\ TrimDots(crd.valueFiles[i]) \notin DOMAIN env.files
     \/ cfg.ignoreValueFile # "" /\ Contains(crd.valueFiles[i], cfg.ignoreValueFile)}

\* The value files of the payload without the ones left out, in order.
Kept(crd) ==
  LET RECURSIVE keep(_)
      keep(i) == IF i > Len(crd.valueFiles) THEN <<>>
                 ELSE (IF i \in LeftOut(crd) THEN <<>> ELSE <<crd.valueFiles[i]>>)
                        \o keep(i + 1)
  IN keep(1)

\* C38: a value file that is missing and declared ignorable does not make the
\* digest computation fail and is left out of the digest; the value files the
\* digest takes in are the ones buildParams hands to the renderer.
C38_AsStated ==
  hist.pc = "built" =>
    /\ hist.fileValues = Kept(hist.crd)
    /\ (\A i \in 1..Len(Kept(hist.crd)) :
          TrimDots(Kept(hist.crd)[i]) \in DOMAIN env.files) => hist.digest.err = Nil
    /\ hist.digest.err = Nil =>
         /\ HashedValueFiles(hist.crd) = hist.fileValues
         /\ hist.digest.hash =
              <<"sha256", hist.crd.name, hist.crd.src,
                [i \in 1..Len(hist.fileValues) |-> env.files[TrimDots(hist.fileValues[i])]]>>

\* C39: a step of the prune removes nothing but whole directories that are
\* direct children of outputPath and were not visited: hashes.json stays as
\* it is, the directory of a visited node keeps every file with its content,
\* no entry appears, and the working directory with its value files is not
\* touched.
C39_PruneFrame ==
  [][Pruning =>
       /\ jsonFile' = jsonFile
       /\ env' = env
       /\ DOMAIN out' \subseteq DOMAIN out
       /\ \A n \in DOMAIN out :
            IF n \in DOMAIN out'
              THEN out'[n] = out[n]
              ELSE IsDir(n) /\ n \notin visited
       /\ \A n \in visited \cap DOMAIN out : n \in DOMAIN out']_vars

\* With the JSON store a prune is over that removed the directory s: the
\* cache file is there with the record of a, and the directory of the visited
\* node a holds what it held when the prune began.
C39_Witness ==
  /\ wpc = "done" /\ walkErr = Nil /\ cfg.backend = "json"
  /\ "s" \in hist.pruned /\ "s" \notin DOMAIN out
  /\ jsonFile.state = "file" /\ Persisted(jsonFile, "a") # EmptyDigest
  /\ "a" \in visited /\ "a" \in DOMAIN out /\ out["a"] = hist.pruneStart["a"]

====
